---- MODULE Spec2Model ----
(***************************************************************************)
(* Connection supervisors of the backend (document store: mongodb.js,      *)
(* cache store: redis.js) as state machines.                               *)
(*                                                                         *)
(* The two supervisors are module singletons that share no state.  A       *)
(* behaviour follows the events, timers and promise continuations of one   *)
(* supervisor (variable focus) while the other one stays as constructed.   *)
(*                                                                         *)
(* Every handler is one action: JavaScript runs a callback to its first    *)
(* await without interleaving, so an action is the synchronous part of a   *)
(* handler, and each resumption after an await is an action of its own.    *)
(***************************************************************************)
EXTENDS Integers, Sequences, FiniteSets, TLC

\* ------------------------------------------------------------------ bounds
MaxRetriesCfg == 2      \* the configured retry ceiling (MONGO_MAX_RETRIES)
MaxAttempts == 6        \* cap of the connectionAttempts counter
MaxClassifiers == 2     \* cap of classifier runs in flight
MaxRetriesDown == 4     \* largest retry ceiling of the stays-down scenario

\* ------------------------------------------------------- program constants
DefaultMaxRetries == 10
DefaultRetryDelay == 5000   \* parseInt(process.env.MONGO_RETRY_DELAY) || 5000
CapDelay == 30000           \* Math.min(times * this.retryDelay, 30000)

NULL == "null"

Stages == {"serverStatus", "replSetGetStatus", "listShards"}

VARIABLES
  focus,            \* which supervisor this behaviour follows
  maxRetries,       \* this.maxRetries
  retryDelay,       \* this.retryDelay
  m_status,         \* MongoDBConnection.status
  m_currentRetry,   \* MongoDBConnection.currentRetry
  m_isReconnecting, \* MongoDBConnection.isReconnecting
  m_timers,         \* pending setTimeout callbacks of handleReconnection
  m_readyState,     \* mongoose.connection.readyState
  m_connecting,     \* connect() calls awaiting mongoose.connect, by caller
  m_started,        \* initializeConnections has called connect()
  m_opened,         \* the driver has had a connection, so it reconnects by itself
  m_classifiers,    \* updateTopology runs suspended at an await, by stage
  m_deploy,         \* the deployment MONGO_URI points at
  m_reachable,      \* the document store accepts connections
  r_lib,            \* the client library redis.js is written against
  r_config,         \* which of REDIS_CLUSTER_NODES, REDIS_SENTINEL_HOSTS, REDIS_URI are set
  r_deploy,         \* the server the cache-store client reaches
  r_status,         \* RedisConnection.status
  r_currentRetry,   \* RedisConnection.currentRetry
  r_isReconnecting, \* RedisConnection.isReconnecting
  r_isCluster,      \* RedisConnection.isCluster
  r_isSentinel,     \* RedisConnection.isSentinel
  r_client,         \* RedisConnection.client: "none", or the status of the client
  r_times,          \* retry-strategy calls of the client since it was last ready
  r_reconnect,      \* the reconnection the client has scheduled, if any
  r_connecting,     \* connect() calls awaiting client.connect()
  r_started,        \* initializeConnections has called connect()
  r_calls,          \* diagnostic commands awaited by the classifier, by stage
  redisStatus,      \* routes/status.js: the module's own redisStatus
  response,         \* the response the last request to the status routes got
  ret,              \* how the last ping() or disconnect() call ended
  snapshot,         \* the record a getStatus() call handed to its caller
  proc,             \* server.js: the HTTP server, the shutdown in progress, the exit code
  dashboard,        \* the dashboard's API client: the fetch under way
  last              \* the handler that ran last, with the retry state before it

apiVars == <<redisStatus, response, ret, snapshot, proc, dashboard>>

cfgVars == <<focus, maxRetries, retryDelay, apiVars>>

mongoVars == <<m_status, m_currentRetry, m_isReconnecting, m_timers,
               m_readyState, m_connecting, m_started, m_opened, m_classifiers,
               m_deploy, m_reachable>>

redisVars == <<r_lib, r_config, r_deploy, r_status, r_currentRetry,
               r_isReconnecting, r_isCluster, r_isSentinel, r_client, r_times,
               r_reconnect, r_connecting, r_started, r_calls>>

vars == <<cfgVars, mongoVars, redisVars, last>>

\* ------------------------------------------------------------- helpers
Min(a, b) == IF a < b THEN a ELSE b

RemoveAt(s, i) == [j \in 1..(Len(s) - 1) |-> IF j < i THEN s[j] ELSE s[j + 1]]

\* Pending timers and suspended calls are unordered: a sequence of timers is
\* kept in the order of the attempt numbers, and suspended calls are counted.
RECURSIVE Insert(_, _)
Insert(s, t) ==
  IF s = <<>> \/ t.attempt <= Head(s).attempt THEN <<t>> \o s
  ELSE <<Head(s)>> \o Insert(Tail(s), t)

Count(f) == LET RECURSIVE Sum(_)
                Sum(D) == IF D = {} THEN 0
                          ELSE LET d == CHOOSE x \in D : TRUE
                               IN f[d] + Sum(D \ {d})
            IN Sum(DOMAIN f)

More(f, k) == [f EXCEPT ![k] = @ + 1]
Less(f, k) == [f EXCEPT ![k] = @ - 1]

\* { ...status, ...updates, connectionAttempts: status.connectionAttempts + 1 }
\* updateStatus() without the increment of connectionAttempts
updateStatus_KeepsCount(status, updates) ==
  [f \in DOMAIN status |-> IF f \in DOMAIN updates THEN updates[f] ELSE status[f]]

updateStatus(status, updates) ==
  [f \in DOMAIN status |->
     IF f = "connectionAttempts" THEN status.connectionAttempts + 1
     ELSE IF f \in DOMAIN updates THEN updates[f]
     ELSE status[f]]

\* The record `last` keeps of a step: the handler, and the retry state, the
\* pending timers and the classifier runs in flight before it.
Step(op, retry, reconn, timers, calls) ==
  [op |-> op, retry |-> retry, reconn |-> reconn, timers |-> timers,
   calls |-> calls]

\* --------------------------------------------------- document store: state
MongoInitStatus ==
  [connected |-> FALSE, message |-> "Not initialized", connectionAttempts |-> 0,
   lastError |-> NULL, topology |-> NULL, replicaSet |-> NULL, nodes |-> <<>>]

MongoRetry == [currentRetry |-> m_currentRetry,
               isReconnecting |-> m_isReconnecting,
               timers |-> m_timers]

MStep(op) ==
  Step(op, m_currentRetry, m_isReconnecting, Len(m_timers), Count(m_classifiers))

\* the timer delay with the ceiling of the cache store's strategies
MongoDelay_Capped(delay, attempt) == Min(delay * attempt, CapDelay)

\* a timer that waits the base delay whatever the attempt
MongoDelay_Fixed(delay, attempt) == delay

\* delay argument of setTimeout in handleReconnection
MongoDelay(delay, attempt) == delay * attempt

\* handleReconnection(), as a function of the retry state
\* a handleReconnection that schedules the timer without counting the attempt
handleReconnection_NoCount(rs) ==
  IF rs.isReconnecting THEN rs
  ELSE [currentRetry |-> rs.currentRetry,
        isReconnecting |-> TRUE,
        timers |-> Insert(rs.timers,
                          [attempt |-> rs.currentRetry + 1,
                           delay |-> MongoDelay(retryDelay, rs.currentRetry + 1)])]

handleReconnection(rs) ==
  IF rs.isReconnecting THEN rs
  ELSE [currentRetry |-> rs.currentRetry + 1,
        isReconnecting |-> TRUE,
        timers |-> Insert(rs.timers,
                          [attempt |-> rs.currentRetry + 1,
                           delay |-> MongoDelay(retryDelay, rs.currentRetry + 1)])]

SetMongoRetry(rs) ==
  /\ m_currentRetry' = rs.currentRetry
  /\ m_isReconnecting' = rs.isReconnecting
  /\ m_timers' = rs.timers

\* the cap of the document store's counter: MaxAttempts, or what a whole retry
\* cycle counts (the first connect, maxRetries timer attempts, the give-up)
AttemptsCap == IF maxRetries + 2 > MaxAttempts THEN maxRetries + 2 ELSE MaxAttempts

CanUpdate(n) == m_status.connectionAttempts + n <= AttemptsCap

\* updateTopology() up to its first await: one more run suspended at serverStatus
StartTopology_Never(cls) == cls

StartTopology(cls) == More(cls, "serverStatus")

\* ------------------------------------------------ document store: events
ConnectedUpdates ==
  [connected |-> TRUE, message |-> "Connected successfully", lastError |-> NULL]

ReconnectedUpdates ==
  [connected |-> TRUE, message |-> "Reconnected successfully", lastError |-> NULL]

ErrorUpdates(msg) ==
  [connected |-> FALSE, message |-> "Connection error", lastError |-> msg]

\* the 'disconnected' update without the topology fields
DisconnectedUpdates_KeepsTopology ==
  [connected |-> FALSE, message |-> "Disconnected"]

DisconnectedUpdates ==
  [connected |-> FALSE, message |-> "Disconnected", topology |-> NULL, nodes |-> <<>>]

\* a ready event that forgets to reset the retry counter
ReadyRetry_KeepsCount(rs) == [rs EXCEPT !.isReconnecting = FALSE]

\* the retry state a ready event leaves
ReadyRetry(rs) == [rs EXCEPT !.currentRetry = 0, !.isReconnecting = FALSE]

\* mongoose.connection.on('connected')
MongoConnected ==
  /\ focus = "mongo"
  /\ m_started
  /\ m_readyState = 2 \/ (m_readyState = 0 /\ m_opened)
  /\ CanUpdate(1)
  /\ Count(m_classifiers) < MaxClassifiers
  /\ m_readyState' = 1
  /\ m_opened' = TRUE
  /\ SetMongoRetry(ReadyRetry(MongoRetry))
  /\ m_status' = updateStatus(m_status, ConnectedUpdates)
  /\ m_classifiers' = StartTopology(m_classifiers)
  /\ last' = MStep("connected")
  /\ UNCHANGED <<cfgVars, redisVars, m_deploy, m_reachable, m_connecting, m_started>>

\* mongoose.connection.on('reconnected')
MongoReconnected ==
  /\ focus = "mongo"
  /\ m_started
  /\ m_opened
  /\ m_readyState \in {0, 1}
  /\ CanUpdate(1)
  /\ Count(m_classifiers) < MaxClassifiers
  /\ m_readyState' = 1
  /\ m_opened' = TRUE
  /\ SetMongoRetry(ReadyRetry(MongoRetry))
  /\ m_status' = updateStatus(m_status, ReconnectedUpdates)
  /\ m_classifiers' = StartTopology(m_classifiers)
  /\ last' = MStep("reconnected")
  /\ UNCHANGED <<cfgVars, redisVars, m_deploy, m_reachable, m_connecting, m_started>>

\* mongoose.connection.on('error')
MongoError ==
  /\ focus = "mongo"
  /\ m_started
  /\ CanUpdate(1)
  /\ m_status' = updateStatus(m_status, ErrorUpdates("ECONNRESET"))
  /\ last' = MStep("error")
  /\ UNCHANGED <<cfgVars, redisVars, m_deploy, m_reachable, m_currentRetry, m_isReconnecting,
                 m_timers, m_readyState, m_connecting, m_started, m_opened, m_classifiers>>

\* a 'disconnected' handler that does not look at the ceiling
DisconnectedRetry_Unchecked(rs) == handleReconnection(rs)

\* the retry state the 'disconnected' handler leaves
DisconnectedRetry(rs) ==
  IF ~rs.isReconnecting /\ rs.currentRetry < maxRetries
  THEN handleReconnection(rs)
  ELSE rs

\* mongoose.connection.on('disconnected')
MongoDisconnected ==
  /\ focus = "mongo"
  /\ m_started
  /\ CanUpdate(1)
  /\ m_readyState' = 0
  /\ m_status' = updateStatus(m_status, DisconnectedUpdates)
  /\ SetMongoRetry(DisconnectedRetry(MongoRetry))
  /\ last' = MStep("disconnected")
  /\ UNCHANGED <<cfgVars, redisVars, m_deploy, m_reachable, m_connecting, m_started,
                 m_opened, m_classifiers>>

\* mongoose.connection.on('fullsetup') and on('all')
MongoFullsetup ==
  /\ focus = "mongo"
  /\ m_started
  /\ m_readyState = 1
  /\ Count(m_classifiers) < MaxClassifiers
  /\ m_classifiers' = StartTopology(m_classifiers)
  /\ \E ev \in {"fullsetup", "all"} : last' = MStep(ev)
  /\ UNCHANGED <<cfgVars, redisVars, m_deploy, m_reachable, m_status, m_currentRetry,
                 m_isReconnecting, m_timers, m_readyState, m_connecting, m_started, m_opened>>

\* ------------------------------------------------ document store: connect
ConnectFailedUpdates(msg) ==
  [connected |-> FALSE, message |-> msg, lastError |-> msg]

MaxRetriesUpdates ==
  [message |-> "Max reconnection attempts reached",
   lastError |-> "Failed to reconnect after maximum retries"]

\* a catch block of connect() that re-raises without scheduling anything
ConnectCatchRetry_Never(rs) == rs

\* the catch block of connect(): the retry state it leaves before re-raising
ConnectCatchRetry(rs) ==
  IF rs.currentRetry < maxRetries THEN handleReconnection(rs) ELSE rs

\* the catch block of the timer callback, entered with isReconnecting cleared
TimerCatchGivesUp(rs) == ~(rs.currentRetry < maxRetries)

\* a catch of the timer callback that clears isReconnecting only to reschedule
TimerCatchRetry_KeepsFlag(rs) ==
  IF TimerCatchGivesUp(rs) THEN rs
  ELSE handleReconnection([rs EXCEPT !.isReconnecting = FALSE])

TimerCatchRetry(rs) ==
  LET cleared == [rs EXCEPT !.isReconnecting = FALSE]
  IN IF TimerCatchGivesUp(cleared) THEN cleared ELSE handleReconnection(cleared)

TimerCatchStatus(status, rs) ==
  IF TimerCatchGivesUp(rs) THEN updateStatus(status, MaxRetriesUpdates) ELSE status

\* initializeConnections: await mongoConnection.connect()
MongoConnect ==
  /\ focus = "mongo"
  /\ ~m_started
  /\ m_started' = TRUE
  /\ m_readyState' = 2
  /\ m_connecting' = More(m_connecting, "init")
  /\ last' = MStep("connect")
  /\ UNCHANGED <<cfgVars, redisVars, m_deploy, m_reachable, m_status, m_currentRetry,
                 m_isReconnecting, m_timers, m_classifiers, m_opened>>

\* await mongoose.connect(...) resolves
MongoConnectResolve ==
  /\ focus = "mongo"
  /\ m_readyState = 1
  /\ \E caller \in DOMAIN m_connecting :
       /\ m_connecting[caller] > 0
       /\ m_connecting' = Less(m_connecting, caller)
       /\ m_isReconnecting' =
            IF caller = "timer" THEN FALSE ELSE m_isReconnecting
  /\ last' = MStep("connectResolved")
  /\ UNCHANGED <<cfgVars, redisVars, m_deploy, m_reachable, m_status, m_currentRetry,
                 m_timers, m_readyState, m_started, m_opened, m_classifiers>>

\* await mongoose.connect(...) rejects: the catch of connect(), then, when the
\* timer callback awaited it, the catch of the timer callback
MongoConnectReject ==
  /\ focus = "mongo"
  /\ m_readyState \in {0, 2}
  /\ \E caller \in DOMAIN m_connecting :
       LET st1 == updateStatus(m_status, ConnectFailedUpdates("ECONNREFUSED"))
           rs1 == ConnectCatchRetry(MongoRetry)
           byTimer == caller = "timer"
           cleared == [rs1 EXCEPT !.isReconnecting = FALSE]
       IN /\ m_connecting[caller] > 0
          /\ m_connecting' = Less(m_connecting, caller)
          /\ IF byTimer
             THEN /\ CanUpdate(IF TimerCatchGivesUp(cleared) THEN 2 ELSE 1)
                  /\ m_status' = TimerCatchStatus(st1, cleared)
                  /\ SetMongoRetry(TimerCatchRetry(rs1))
                  /\ last' = MStep("timerConnectRejected")
             ELSE /\ CanUpdate(1)
                  /\ m_status' = st1
                  /\ SetMongoRetry(rs1)
                  /\ last' = MStep("connectRejected")
  /\ m_readyState' = 0
  /\ UNCHANGED <<cfgVars, redisVars, m_deploy, m_reachable, m_started, m_opened, m_classifiers>>

\* a timer callback that calls connect() whatever the transport's state
MongoTimerFire_AlwaysConnects ==
  /\ focus = "mongo"
  /\ \E i \in 1..Len(m_timers) :
       /\ m_timers' = RemoveAt(m_timers, i)
       /\ m_connecting' = More(m_connecting, "timer")
       /\ m_readyState' = 2
       /\ UNCHANGED m_isReconnecting
  /\ last' = MStep("timer")
  /\ UNCHANGED <<cfgVars, redisVars, m_deploy, m_reachable, m_status, m_currentRetry,
                 m_started, m_opened, m_classifiers>>

\* the setTimeout callback of handleReconnection fires
MongoTimerFire ==
  /\ focus = "mongo"
  /\ \E i \in 1..Len(m_timers) :
       /\ m_timers' = RemoveAt(m_timers, i)
       /\ IF m_readyState = 0
          THEN /\ m_connecting' = More(m_connecting, "timer")
               /\ m_readyState' = 2
               /\ UNCHANGED m_isReconnecting
          ELSE /\ m_isReconnecting' = FALSE
               /\ UNCHANGED <<m_connecting, m_readyState>>
  /\ last' = MStep("timer")
  /\ UNCHANGED <<cfgVars, redisVars, m_deploy, m_reachable, m_status, m_currentRetry,
                 m_started, m_opened, m_classifiers>>

\* ------------------------------------------- document store: updateTopology
Deployments == {"mongod", "staleSetName", "replSet", "mongos"}

\* What admin.serverStatus() can answer: an error, or the fields the
\* classifier reads, repl.setName (NULL when absent) and process.
ServerStatus(setName, process) ==
  [throws |-> FALSE, setName |-> setName, process |-> process]

ServerStatusThrows == [throws |-> TRUE, setName |-> NULL, process |-> NULL]

ServerStatusResults(deploy) ==
  {ServerStatusThrows} \cup
    (CASE deploy = "mongod" -> {ServerStatus(NULL, "mongod")}
       [] deploy = "mongos" -> {ServerStatus(NULL, "mongos")}
       [] deploy = "routerWithSetName" -> {ServerStatus("rs0", "mongos")}
       [] OTHER -> {ServerStatus("rs0", "mongod")})

\* a classifier that tests for the shard router before the replica-set name
AfterServerStatus_RouterFirst(res) ==
  IF res.throws THEN "catch"
  ELSE IF res.process = "mongos" THEN "listShards"
  ELSE IF res.setName # NULL THEN "replSetGetStatus"
  ELSE "standalone"

\* where updateTopology goes once serverStatus has answered: the outer catch,
\* the replica-set branch, the shard-router branch, or neither (standalone)
AfterServerStatus(res) ==
  IF res.throws THEN "catch"
  ELSE IF res.setName # NULL THEN "replSetGetStatus"
  ELSE IF res.process = "mongos" THEN "listShards"
  ELSE "standalone"

\* what replSetGetStatus can answer
ReplSetGetStatusResults(deploy) ==
  IF deploy = "staleSetName" THEN {"NoReplicationEnabled"}
  ELSE {"members", "noMembers", "failed"}

\* what listShards can answer
ListShardsResults(deploy) == {"shards", "noShards", "failed"}

ReplMembers == << [host |-> "mongo1:27017", role |-> "primary"],
                  [host |-> "mongo2:27017", role |-> "secondary"] >>
ShardMembers == << [host |-> "shard1/mongo1:27018", role |-> "shard"] >>

Topology(t, rs, n) == [topology |-> t, replicaSet |-> rs, nodes |-> n]

\* this.status.topology = ...; this.status.replicaSet = ...; this.status.nodes = ...
WriteTopology(status, t) ==
  [status EXCEPT !.topology = t.topology, !.replicaSet = t.replicaSet,
                 !.nodes = t.nodes]

\* an outer catch that reports the failure in place of a topology
TopologyFallback_AsError == Topology("error", NULL, <<>>)

\* the outer catch of updateTopology
TopologyFallback == Topology("standalone", NULL, <<>>)

\* a replica-set branch that treats NoReplicationEnabled like any other error
ReplSetTopology_AnyError(res) ==
  CASE res = "members" -> Topology("replicaSet", "rs0", ReplMembers)
    [] OTHER -> Topology("replicaSet", "rs0", <<>>)

\* the classification once replSetGetStatus has answered
ReplSetTopology(res) ==
  CASE res = "members" -> Topology("replicaSet", "rs0", ReplMembers)
    [] res = "noMembers" -> Topology("replicaSet", "rs0", <<>>)
    [] res = "NoReplicationEnabled" -> Topology("standalone", NULL, <<>>)
    [] OTHER -> Topology("replicaSet", "rs0", <<>>)

\* the classification once listShards has answered
ShardedTopology(res) ==
  IF res = "shards" THEN Topology("sharded", NULL, ShardMembers)
  ELSE Topology("sharded", NULL, <<>>)

\* await admin.serverStatus() returns or throws
MongoServerStatus ==
  /\ focus = "mongo"
  /\ \E res \in ServerStatusResults(m_deploy) :
       LET branch == AfterServerStatus(res)
       IN /\ m_classifiers["serverStatus"] > 0
          /\ CASE branch \in {"replSetGetStatus", "listShards"} ->
                    /\ m_classifiers' =
                         More(Less(m_classifiers, "serverStatus"), branch)
                    /\ UNCHANGED m_status
               [] branch = "catch" ->
                    /\ m_classifiers' = Less(m_classifiers, "serverStatus")
                    /\ m_status' = WriteTopology(m_status, TopologyFallback)
               [] OTHER ->
                    /\ m_classifiers' = Less(m_classifiers, "serverStatus")
                    /\ m_status' =
                         WriteTopology(m_status, Topology("standalone", NULL, <<>>))
  /\ last' = MStep("serverStatus")
  /\ UNCHANGED <<cfgVars, redisVars, m_deploy, m_reachable, m_currentRetry, m_isReconnecting,
                 m_timers, m_readyState, m_connecting, m_started, m_opened>>

\* await admin.command({ replSetGetStatus: 1 }) returns or throws
MongoReplSetGetStatus ==
  /\ focus = "mongo"
  /\ \E res \in ReplSetGetStatusResults(m_deploy) :
       /\ m_classifiers["replSetGetStatus"] > 0
       /\ m_classifiers' = Less(m_classifiers, "replSetGetStatus")
       /\ m_status' = WriteTopology(m_status, ReplSetTopology(res))
  /\ last' = MStep("replSetGetStatus")
  /\ UNCHANGED <<cfgVars, redisVars, m_deploy, m_reachable, m_currentRetry, m_isReconnecting,
                 m_timers, m_readyState, m_connecting, m_started, m_opened>>

\* await admin.command({ listShards: 1 }) returns or throws
MongoListShards ==
  /\ focus = "mongo"
  /\ \E res \in ListShardsResults(m_deploy) :
       /\ m_classifiers["listShards"] > 0
       /\ m_classifiers' = Less(m_classifiers, "listShards")
       /\ m_status' = WriteTopology(m_status, ShardedTopology(res))
  /\ last' = MStep("listShards")
  /\ UNCHANGED <<cfgVars, redisVars, m_deploy, m_reachable, m_currentRetry, m_isReconnecting,
                 m_timers, m_readyState, m_connecting, m_started, m_opened>>

\* ------------------------------------------------------ cache store: state
\* Two versions of redis.js are in the repository: the one written against
\* ioredis (cluster, sentinel or standard client) and the one written against
\* node-redis (sentinel or standard options of createClient).
Libraries == {"ioredis", "node-redis"}

RedisStages ==
  {"info", "checkIfSentinel", "sentinelMasters", "clusterNodes", "infoReplication"}

RedisInitStatus ==
  [connected |-> FALSE, message |-> "Not initialized", connectionAttempts |-> 0,
   lastError |-> NULL, mode |-> NULL, role |-> NULL, clusterNodes |-> <<>>]

Config(c, s, u) == [cluster |-> c, sentinel |-> s, uri |-> u]

\* the branch connect() takes: cluster > sentinel > standard (ioredis version),
\* sentinel > standard (node-redis version, which does not read the node list)
Transport(lib, config) ==
  IF lib = "ioredis" /\ config.cluster THEN "cluster"
  ELSE IF config.sentinel THEN "sentinel"
  ELSE IF config.uri THEN "standard"
  ELSE "none"

RStep(op) ==
  Step(op, r_times, r_isReconnecting, Len(r_reconnect), Count(r_calls))

RCanUpdate(n) == r_status.connectionAttempts + n <= MaxAttempts

\* Math.min(times * this.retryDelay, 30000)
RedisDelay(delay, times) == Min(times * delay, CapDelay)

\* retryStrategy / clusterRetryStrategy / reconnectStrategy: stop (null, or an
\* Error) beyond maxRetries, else the delay of the next reconnection
retryStrategy(times) ==
  IF times > maxRetries THEN [stop |-> TRUE, delay |-> 0]
  ELSE [stop |-> FALSE, delay |-> RedisDelay(retryDelay, times)]

\* The number the client passes to the strategy on its k-th call since it was
\* last ready: ioredis passes ++retryAttempts (1, 2, ...), node-redis passes
\* the retries made so far (0, 1, ...).
StrategyArgument(lib, calls) == IF lib = "ioredis" THEN calls + 1 ELSE calls

\* ----------------------------------------------------- cache store: connect
\* the update of an unconfigured cache store, recorded as an error
NotConfiguredUpdates_AsError ==
  [connected |-> FALSE, message |-> "Redis not configured (optional)",
   lastError |-> "Redis not configured"]

NotConfiguredUpdates ==
  [connected |-> FALSE, message |-> "Redis not configured (optional)",
   lastError |-> NULL]

RedisConnectFailedUpdates(msg) ==
  [connected |-> FALSE, message |-> msg, lastError |-> msg]

\* connect(): nothing configured, or the client is built and its handlers are
\* registered; the node-redis version then awaits client.connect()
RedisConnect ==
  /\ focus = "redis"
  /\ ~r_started
  /\ r_started' = TRUE
  /\ LET t == Transport(r_lib, r_config)
     IN IF t = "none"
        THEN /\ r_status' = updateStatus(r_status, NotConfiguredUpdates)
             /\ UNCHANGED <<r_client, r_isCluster, r_isSentinel, r_connecting>>
        ELSE /\ r_client' = "connecting"
             /\ r_isCluster' = (t = "cluster")
             /\ r_isSentinel' = (r_lib = "ioredis" /\ t = "sentinel")
             /\ r_connecting' = IF r_lib = "node-redis" THEN 1 ELSE 0
             /\ UNCHANGED r_status
  /\ last' = RStep("connect")
  /\ UNCHANGED <<cfgVars, mongoVars, r_lib, r_config, r_deploy, r_currentRetry,
                 r_isReconnecting, r_times, r_reconnect, r_calls>>

\* connect(): building the client throws (catch, re-raised to the caller)
RedisConnectThrows ==
  /\ focus = "redis"
  /\ ~r_started
  /\ Transport(r_lib, r_config) # "none"
  /\ r_started' = TRUE
  /\ r_status' = updateStatus(r_status, RedisConnectFailedUpdates("Invalid options"))
  /\ last' = RStep("connectThrows")
  /\ UNCHANGED <<cfgVars, mongoVars, r_lib, r_config, r_deploy, r_currentRetry,
                 r_isReconnecting, r_isCluster, r_isSentinel, r_client, r_times,
                 r_reconnect, r_connecting, r_calls>>

\* node-redis version: await this.client.connect() resolves
RedisConnectResolve ==
  /\ focus = "redis"
  /\ r_connecting > 0
  /\ r_client = "ready"
  /\ r_connecting' = r_connecting - 1
  /\ r_isSentinel' = IF Transport(r_lib, r_config) = "sentinel" THEN TRUE
                     ELSE r_isSentinel
  /\ last' = RStep("connectResolved")
  /\ UNCHANGED <<cfgVars, mongoVars, r_lib, r_config, r_deploy, r_status,
                 r_currentRetry, r_isReconnecting, r_isCluster, r_client, r_times,
                 r_reconnect, r_started, r_calls>>

\* node-redis version: await this.client.connect() rejects once the strategy
\* has returned an Error (catch, re-raised to the caller)
RedisConnectReject ==
  /\ focus = "redis"
  /\ r_connecting > 0
  /\ r_client = "end"
  /\ RCanUpdate(1)
  /\ r_connecting' = r_connecting - 1
  /\ r_status' = updateStatus(r_status, RedisConnectFailedUpdates("Max retries reached"))
  /\ last' = RStep("connectRejected")
  /\ UNCHANGED <<cfgVars, mongoVars, r_lib, r_config, r_deploy, r_currentRetry,
                 r_isReconnecting, r_isCluster, r_isSentinel, r_client, r_times,
                 r_reconnect, r_started, r_calls>>

\* ------------------------------------------------------ cache store: events
RedisReadyUpdates ==
  [connected |-> TRUE, message |-> "Connected successfully", lastError |-> NULL]

RedisErrorUpdates(msg) ==
  [connected |-> FALSE, message |-> "Connection error", lastError |-> msg]

RedisCloseUpdates ==
  [connected |-> FALSE, message |-> "Connection closed", mode |-> NULL,
   role |-> NULL, clusterNodes |-> <<>>]

ReconnectingUpdates == [message |-> "Reconnecting..."]

\* this.status.mode = ...; this.status.role = ...
WriteMode(status, mode, role) == [status EXCEPT !.mode = mode, !.role = role]

\* this.status.mode = ...; this.status.role = ...; this.status.clusterNodes = ...
\* The record a caller holds after getStatus().  The node-redis version hands
\* out this.status itself, so an assignment to a field of this.status shows in
\* the caller's record for as long as this.status is that object; updateStatus()
\* replaces the object, and each replacement raises connectionAttempts.
Held(status) ==
  IF /\ snapshot.taken
     /\ snapshot.byRef
     /\ snapshot.status.connectionAttempts = r_status.connectionAttempts
  THEN [snapshot EXCEPT !.status = status]
  ELSE snapshot

WriteModeNodes(status, mode, role, nodes) ==
  [status EXCEPT !.mode = mode, !.role = role, !.clusterNodes = nodes]

\* a classifier that does not look at the isCluster flag
InfoSyncStatus_NoClusterFlag(status, isCluster, isSentinel) ==
  IF isSentinel THEN WriteMode(status, "sentinel", "managed-by-sentinel")
  ELSE status

\* ioredis version, getRedisInfo() up to its first await, called with the client
\* ready: the status it leaves
InfoSyncStatus(status, isCluster, isSentinel) ==
  IF isCluster THEN WriteMode(status, "cluster", "cluster-node")
  ELSE IF isSentinel THEN WriteMode(status, "sentinel", "managed-by-sentinel")
  ELSE status

\* the diagnostic command the 'ready' handler awaits first, if any
ReadyAwaits(lib, isCluster, isSentinel) ==
  IF lib = "node-redis" THEN {"checkIfSentinel"}
  ELSE IF isCluster \/ isSentinel THEN {}
  ELSE {"info"}

\* client.on('ready')
RedisReady ==
  /\ focus = "redis"
  /\ r_client = "connecting"
  /\ RCanUpdate(1)
  /\ Count(r_calls) < MaxClassifiers
  /\ r_client' = "ready"
  /\ r_times' = 0
  /\ r_currentRetry' = 0
  /\ r_isReconnecting' = FALSE
  /\ LET st == updateStatus(r_status, RedisReadyUpdates)
     IN r_status' = IF r_lib = "ioredis"
                    THEN InfoSyncStatus(st, r_isCluster, r_isSentinel)
                    ELSE st
  /\ r_calls' = [stage \in RedisStages |->
                   IF stage \in ReadyAwaits(r_lib, r_isCluster, r_isSentinel)
                   THEN r_calls[stage] + 1 ELSE r_calls[stage]]
  /\ last' = RStep("ready")
  /\ UNCHANGED <<cfgVars, mongoVars, r_lib, r_config, r_deploy, r_isCluster,
                 r_isSentinel, r_reconnect, r_connecting, r_started>>

\* client.on('error')
RedisError ==
  /\ focus = "redis"
  /\ r_client \in {"connecting", "ready", "close", "reconnecting"}
  /\ RCanUpdate(1)
  /\ r_status' = updateStatus(r_status, RedisErrorUpdates("ECONNRESET"))
  /\ last' = RStep("error")
  /\ UNCHANGED <<cfgVars, mongoVars, r_lib, r_config, r_deploy, r_currentRetry,
                 r_isReconnecting, r_isCluster, r_isSentinel, r_client, r_times,
                 r_reconnect, r_connecting, r_started, r_calls>>

\* The connection is lost.  ioredis emits 'close': client.on('close').  node-redis
\* emits no event the supervisor listens to at this point ('error' is separate).
RedisClose ==
  /\ focus = "redis"
  /\ r_client \in {"connecting", "ready"}
  /\ r_client' = "close"
  /\ IF r_lib = "ioredis"
     THEN /\ RCanUpdate(1)
          /\ r_status' = updateStatus(r_status, RedisCloseUpdates)
     ELSE UNCHANGED r_status
  /\ last' = RStep(IF r_lib = "ioredis" THEN "close" ELSE "lost")
  /\ UNCHANGED <<cfgVars, mongoVars, r_lib, r_config, r_deploy, r_currentRetry,
                 r_isReconnecting, r_isCluster, r_isSentinel, r_times, r_reconnect,
                 r_connecting, r_started, r_calls>>

\* node-redis version, client.on('end'): the client was closed for good
RedisEnd ==
  /\ focus = "redis"
  /\ r_lib = "node-redis"
  /\ r_client \in {"connecting", "ready", "close", "reconnecting"}
  /\ RCanUpdate(1)
  /\ r_client' = "end"
  /\ r_reconnect' = <<>>
  /\ r_status' = updateStatus(r_status, RedisCloseUpdates)
  /\ last' = RStep("end")
  /\ UNCHANGED <<cfgVars, mongoVars, r_lib, r_config, r_deploy, r_currentRetry,
                 r_isReconnecting, r_isCluster, r_isSentinel, r_times,
                 r_connecting, r_started, r_calls>>

\* The client consults the retry strategy after a lost connection and, when the
\* strategy returns a delay, schedules the reconnection and emits 'reconnecting'
\* (client.on('reconnecting'), which the cluster branch does not register).
RedisRetryStrategy ==
  /\ focus = "redis"
  /\ r_client = "close"
  /\ LET times == StrategyArgument(r_lib, r_times)
         answer == retryStrategy(times)
     IN /\ r_times' = r_times + 1
        /\ IF answer.stop
           THEN /\ r_client' = "end"
                /\ UNCHANGED <<r_reconnect, r_status>>
           ELSE /\ r_client' = "reconnecting"
                /\ r_reconnect' = <<[attempt |-> r_times + 1, times |-> times,
                                     delay |-> answer.delay]>>
                /\ IF r_isCluster
                   THEN UNCHANGED r_status
                   ELSE /\ RCanUpdate(1)
                        /\ r_status' = updateStatus(r_status, ReconnectingUpdates)
  /\ last' = RStep("retryStrategy")
  /\ UNCHANGED <<cfgVars, mongoVars, r_lib, r_config, r_deploy, r_currentRetry,
                 r_isReconnecting, r_isCluster, r_isSentinel, r_connecting,
                 r_started, r_calls>>

\* the reconnection the client scheduled is due: it connects again
RedisReconnect ==
  /\ focus = "redis"
  /\ r_client = "reconnecting"
  /\ r_reconnect' = <<>>
  /\ r_client' = "connecting"
  /\ last' = RStep("reconnect")
  /\ UNCHANGED <<cfgVars, mongoVars, r_lib, r_config, r_deploy, r_status,
                 r_currentRetry, r_isReconnecting, r_isCluster, r_isSentinel,
                 r_times, r_connecting, r_started, r_calls>>

\* -------------------------------------------------- cache store: classifier
RedisDeployments == {"standalone", "master", "slave", "cluster", "sentinel"}

\* The fields of the INFO answer the classifier reads; NULL is a missing field
\* and connected_slaves = -1 one that parseInt cannot read (NaN).
Info(ce, role, slaves) ==
  [cluster_enabled |-> ce, role |-> role, connected_slaves |-> slaves]

\* The text of an INFO answer, line by line: a line is its part before the
\* first ':' and its part after it (NULL when the line has no ':').
Line(key, value) == [key |-> key, value |-> value]

CeTexts == {NULL, "0", "1"}
RoleTexts == {NULL, "master", "slave"}
SlavesTexts == {NULL, "x", "0", "1", "2"}

\* an answer with the three fields present or missing (NULL) and a section header
InfoText(ce, role, slaves) ==
  << Line("# Server", NULL) >>
    \o (IF ce = NULL THEN <<>> ELSE << Line("cluster_enabled", ce) >>)
    \o << Line("# Replication", NULL) >>
    \o (IF role = NULL THEN <<>> ELSE << Line("role", role) >>)
    \o (IF slaves = NULL THEN <<>> ELSE << Line("connected_slaves", slaves) >>)

\* a server named after the INFO answer it gives
InfoDeploy(ce, role, slaves) == "info:" \o ce \o "," \o role \o "," \o slaves

InfoDeployments ==
  {InfoDeploy(ce, role, slaves) : ce \in CeTexts, role \in RoleTexts, slaves \in SlavesTexts}

InfoTextOf(deploy) ==
  LET t == CHOOSE t \in CeTexts \X RoleTexts \X SlavesTexts :
             InfoDeploy(t[1], t[2], t[3]) = deploy
  IN InfoText(t[1], t[2], t[3])

\* parseRedisInfo(info)[key]: the value of the last line 'key:value', NULL
\* (undefined) when there is none; lines without ':' are skipped
parseRedisInfo(lines, key) ==
  LET at == {i \in DOMAIN lines : lines[i].key = key /\ lines[i].value # NULL}
  IN IF at = {} THEN NULL
     ELSE lines[CHOOSE i \in at : \A j \in at : j <= i].value

\* parseInt(text); -1 stands for NaN, which like it is not greater than 0
parseInt(text) ==
  CASE text = "0" -> 0
    [] text = "1" -> 1
    [] text = "2" -> 2
    [] OTHER -> -1

InfoOf(deploy) ==
  CASE deploy = "standalone" -> Info("0", "master", 0)
    [] deploy = "master" -> Info("0", "master", 1)
    [] deploy = "slave" -> Info("0", "slave", 0)
    [] deploy = "cluster" -> Info("1", "master", 0)
    [] deploy \in InfoDeployments ->
         LET infoObj == InfoTextOf(deploy)
         IN Info(parseRedisInfo(infoObj, "cluster_enabled"),
                 parseRedisInfo(infoObj, "role"),
                 parseInt(parseRedisInfo(infoObj, "connected_slaves")))
    [] OTHER -> Info(NULL, NULL, -1)

\* infoObj.role || 'master'
InfoRole(info) == IF info.role = NULL THEN "master" ELSE info.role

\* a classifier that takes the role as answered, without the default
InfoMode_RoleAsAnswered(info) ==
  IF info.cluster_enabled = "1" THEN "cluster"
  ELSE IF info.role = "slave" THEN "replication"
  ELSE IF info.role = "master" /\ info.connected_slaves > 0 THEN "replication"
  ELSE "standalone"

\* the mode both versions derive from the INFO answer
\* (parseInt(x) > 0 and (parseInt(x) || 0) > 0 agree: NaN is not positive)
InfoMode(info) ==
  IF info.cluster_enabled = "1" THEN "cluster"
  ELSE IF InfoRole(info) = "slave" THEN "replication"
  ELSE IF InfoRole(info) = "master" /\ info.connected_slaves > 0 THEN "replication"
  ELSE "standalone"

\* node-redis version: the command getRedisInfo awaits after INFO, if any
InfoAwaits(info) ==
  IF info.cluster_enabled = "1" THEN {"clusterNodes"}
  ELSE IF InfoRole(info) = "slave" THEN {}
  ELSE IF InfoRole(info) = "master" /\ info.connected_slaves > 0
  THEN {"infoReplication"}
  ELSE {}

Node(role, address, status) == [role |-> role, address |-> address, status |-> status]

MasterAndSelf == << Node("master", "redis-master:6379", "connected"),
                    Node("slave", "current", "connected") >>
SelfAndSlaves == << Node("master", "current", "connected"),
                    Node("slave", "172.20.0.3:6379", "connected") >>
ClusterNodeList == << Node("master", "172.20.0.2:7001", "connected"),
                      Node("slave", "172.20.0.5:7004", "connected") >>
SentinelMasterList == << Node("monitored-master", "172.20.0.2:6379", "up"),
                         Node("monitored-master", "172.20.0.9:6379", "down") >>

\* node-redis version: the members written without a further command
InfoNodes(info) ==
  IF info.cluster_enabled # "1" /\ InfoRole(info) = "slave" THEN MasterAndSelf
  ELSE <<>>

Await(calls, from, to) ==
  [stage \in RedisStages |->
     calls[stage] + (IF stage \in to THEN 1 ELSE 0) - (IF stage = from THEN 1 ELSE 0)]

\* await this.client.info() returns or throws
RedisInfo ==
  /\ focus = "redis"
  /\ r_calls["info"] > 0
  /\ \E ok \in BOOLEAN :
       LET info == InfoOf(r_deploy)
           next == IF ok /\ r_lib = "node-redis" THEN InfoAwaits(info) ELSE {}
       IN /\ r_calls' = Await(r_calls, "info", next)
          /\ r_status' =
               IF ~ok
               THEN IF r_lib = "ioredis" THEN r_status
                    ELSE WriteModeNodes(r_status, "standalone", "master", <<>>)
               ELSE IF next # {} THEN r_status
               ELSE WriteModeNodes(r_status, InfoMode(info), InfoRole(info),
                                   IF r_lib = "ioredis" THEN <<>> ELSE InfoNodes(info))
          /\ last' = RStep(IF ok THEN "info" ELSE "infoFailed")
  /\ snapshot' = Held(r_status')
  /\ UNCHANGED <<focus, maxRetries, retryDelay, proc, dashboard, redisStatus, response, ret,
                 mongoVars, r_lib, r_config, r_deploy, r_currentRetry,
                 r_isReconnecting, r_isCluster, r_isSentinel, r_client, r_times,
                 r_reconnect, r_connecting, r_started>>

\* node-redis version: the client accepts commands (client.isOpen)
IsOpen(client) == client \in {"connecting", "ready", "close", "reconnecting"}

\* what SENTINEL masters can answer: only a sentinel knows the command
SentinelAnswers(deploy) == IF deploy = "sentinel" THEN {TRUE, FALSE} ELSE {FALSE}

\* node-redis version, the 'ready' handler resumes: this.isSentinel = await
\* this.checkIfSentinel(), then getRedisInfo() up to its first await
RedisCheckIfSentinel ==
  /\ focus = "redis"
  /\ r_calls["checkIfSentinel"] > 0
  /\ \E answered \in SentinelAnswers(r_deploy) :
       /\ r_isSentinel' = answered
       /\ r_calls' = Await(r_calls, "checkIfSentinel",
                           IF ~IsOpen(r_client) THEN {}
                           ELSE IF answered THEN {"sentinelMasters"} ELSE {"info"})
  /\ last' = RStep("checkIfSentinel")
  /\ UNCHANGED <<cfgVars, mongoVars, r_lib, r_config, r_deploy, r_status,
                 r_currentRetry, r_isReconnecting, r_isCluster, r_client, r_times,
                 r_reconnect, r_connecting, r_started>>

\* node-redis version: await this.getSentinelMasters() returns (it returns [] on
\* an error)
RedisSentinelMasters ==
  /\ focus = "redis"
  /\ r_calls["sentinelMasters"] > 0
  /\ \E answered \in SentinelAnswers(r_deploy) :
       r_status' = WriteModeNodes(r_status, "sentinel", "sentinel",
                                  IF answered THEN SentinelMasterList ELSE <<>>)
  /\ r_calls' = Await(r_calls, "sentinelMasters", {})
  /\ last' = RStep("sentinelMasters")
  /\ snapshot' = Held(r_status')
  /\ UNCHANGED <<focus, maxRetries, retryDelay, proc, dashboard, redisStatus, response, ret,
                 mongoVars, r_lib, r_config, r_deploy, r_currentRetry,
                 r_isReconnecting, r_isCluster, r_isSentinel, r_client, r_times,
                 r_reconnect, r_connecting, r_started>>

\* node-redis version: await sendCommand(['CLUSTER', 'NODES']) returns or throws
RedisClusterNodes ==
  /\ focus = "redis"
  /\ r_calls["clusterNodes"] > 0
  /\ \E ok \in BOOLEAN :
       r_status' = WriteModeNodes(r_status, "cluster", InfoRole(InfoOf(r_deploy)),
                                  IF ok THEN ClusterNodeList ELSE <<>>)
  /\ r_calls' = Await(r_calls, "clusterNodes", {})
  /\ last' = RStep("clusterNodes")
  /\ snapshot' = Held(r_status')
  /\ UNCHANGED <<focus, maxRetries, retryDelay, proc, dashboard, redisStatus, response, ret,
                 mongoVars, r_lib, r_config, r_deploy, r_currentRetry,
                 r_isReconnecting, r_isCluster, r_isSentinel, r_client, r_times,
                 r_reconnect, r_connecting, r_started>>

\* node-redis version: await this.client.info('replication') returns or throws
RedisInfoReplication ==
  /\ focus = "redis"
  /\ r_calls["infoReplication"] > 0
  /\ \E ok \in BOOLEAN :
       r_status' = WriteModeNodes(r_status, "replication", InfoRole(InfoOf(r_deploy)),
                                  IF ok THEN SelfAndSlaves ELSE <<>>)
  /\ r_calls' = Await(r_calls, "infoReplication", {})
  /\ last' = RStep("infoReplication")
  /\ snapshot' = Held(r_status')
  /\ UNCHANGED <<focus, maxRetries, retryDelay, proc, dashboard, redisStatus, response, ret,
                 mongoVars, r_lib, r_config, r_deploy, r_currentRetry,
                 r_isReconnecting, r_isCluster, r_isSentinel, r_client, r_times,
                 r_reconnect, r_connecting, r_started>>

\* ------------------------------------------------------------ specification
MongoConstructed ==
  /\ m_status = MongoInitStatus
  /\ m_currentRetry = 0
  /\ m_isReconnecting = FALSE
  /\ m_timers = <<>>
  /\ m_readyState = 0
  /\ m_connecting = [init |-> 0, timer |-> 0]
  /\ m_started = FALSE
  /\ m_opened = FALSE
  /\ m_classifiers = [st \in Stages |-> 0]

\* the supervisor as constructed, and a document store that accepts connections
MongoInit ==
  /\ m_reachable = TRUE
  /\ MongoConstructed

RedisInit ==
  /\ r_status = RedisInitStatus
  /\ r_currentRetry = 0
  /\ r_isReconnecting = FALSE
  /\ r_isCluster = FALSE
  /\ r_isSentinel = FALSE
  /\ r_client = "none"
  /\ r_times = 0
  /\ r_reconnect = <<>>
  /\ r_connecting = 0
  /\ r_started = FALSE
  /\ r_calls = [st \in RedisStages |-> 0]

\* server.js once app.listen has returned: no signal received, no close
\* callback registered, no forced-shutdown timer armed, process.exit not called
Listening ==
  [signals |-> 0, server |-> "listening", callbacks |-> 0, runs |-> <<>>,
   timeouts |-> 0, exit |-> "none"]

\* the dashboard's API module as loaded: no fetch made
ClientIdle ==
  [phase |-> "idle", retryCount |-> 0, log |-> <<>>, delays |-> <<>>,
   result |-> "none"]

\* routes/status.js as loaded, and no call made yet
NoResponse == [route |-> "none", code |-> 0, status |-> NULL]

ApiInit ==
  /\ redisStatus = [connected |-> FALSE, message |-> "Redis not configured (optional)"]
  /\ response = NoResponse
  /\ ret = "none"
  /\ snapshot = [taken |-> FALSE, byRef |-> FALSE, status |-> MongoInitStatus]
  /\ proc = Listening
  /\ dashboard = ClientIdle

\* the environments followed when the behaviour follows the document store ...
MongoSetups == {[deploy |-> d] : d \in Deployments}

\* ... and when it follows the cache store
RedisSetups ==
  {[lib |-> "ioredis", config |-> Config(FALSE, FALSE, FALSE), deploy |-> "standalone"],
   [lib |-> "ioredis", config |-> Config(TRUE, FALSE, TRUE), deploy |-> "cluster"],
   [lib |-> "ioredis", config |-> Config(FALSE, TRUE, TRUE), deploy |-> "master"],
   [lib |-> "ioredis", config |-> Config(FALSE, FALSE, TRUE), deploy |-> "master"],
   [lib |-> "node-redis", config |-> Config(FALSE, FALSE, TRUE), deploy |-> "cluster"],
   [lib |-> "node-redis", config |-> Config(FALSE, FALSE, TRUE), deploy |-> "master"],
   [lib |-> "node-redis", config |-> Config(FALSE, TRUE, FALSE), deploy |-> "sentinel"]}

Init ==
  /\ maxRetries = MaxRetriesCfg
  /\ retryDelay = DefaultRetryDelay
  /\ MongoInit
  /\ RedisInit
  /\ ApiInit
  /\ last = Step("init", 0, FALSE, 0, 0)
  /\ \/ /\ focus = "mongo"
        /\ \E su \in MongoSetups : m_deploy = su.deploy
        /\ r_lib = "ioredis" /\ r_config = Config(FALSE, FALSE, FALSE)
        /\ r_deploy = "standalone"
     \/ /\ focus = "redis"
        /\ \E su \in RedisSetups :
             r_lib = su.lib /\ r_config = su.config /\ r_deploy = su.deploy
        /\ m_deploy = "mongod"

MongoNext ==
  \/ MongoConnect
  \/ MongoConnectResolve
  \/ MongoConnectReject
  \/ MongoTimerFire
  \/ MongoConnected
  \/ MongoReconnected
  \/ MongoError
  \/ MongoDisconnected
  \/ MongoFullsetup
  \/ MongoServerStatus
  \/ MongoReplSetGetStatus
  \/ MongoListShards

RedisNext ==
  \/ RedisConnect
  \/ RedisConnectThrows
  \/ RedisConnectResolve
  \/ RedisConnectReject
  \/ RedisReady
  \/ RedisError
  \/ RedisClose
  \/ RedisEnd
  \/ RedisRetryStrategy
  \/ RedisReconnect
  \/ RedisInfo
  \/ RedisCheckIfSentinel
  \/ RedisSentinelMasters
  \/ RedisClusterNodes
  \/ RedisInfoReplication

Next == MongoNext \/ RedisNext

Spec == Init /\ [][Next]_vars

\* A backend that stays down: no ready event arrives, every connection attempt
\* fails.  The retry ceiling and the base delay range over configured values.
DownRetries == 1..MaxRetriesDown
DownDelays == {DefaultRetryDelay, 2 * DefaultRetryDelay, 4 * DefaultRetryDelay}

DownInit ==
  /\ maxRetries \in DownRetries
  /\ retryDelay \in DownDelays
  /\ MongoInit
  /\ RedisInit
  /\ ApiInit
  /\ last = Step("init", 0, FALSE, 0, 0)
  /\ m_deploy = "mongod"
  /\ r_deploy = "standalone"
  /\ \/ /\ focus = "mongo"
        /\ r_lib = "ioredis" /\ r_config = Config(FALSE, FALSE, FALSE)
     \/ /\ focus = "redis"
        /\ r_lib \in Libraries
        /\ r_config \in {Config(TRUE, FALSE, FALSE), Config(FALSE, FALSE, TRUE)}

DownNext ==
  \/ MongoConnect
  \/ MongoTimerFire
  \/ MongoConnectReject
  \/ RedisConnect
  \/ RedisClose
  \/ RedisRetryStrategy
  \/ RedisReconnect
  \/ RedisConnectReject

SpecDown == DownInit /\ [][DownNext]_vars

\* ============================================================== properties
MongoReadyOps == {"connected", "reconnected"}
MongoPending == Len(m_timers) > 0 \/ m_connecting["timer"] > 0

\* C1: whenever the status of a backend says connected = false, its topology
\* (mode) is null and its member list is empty.
C1_DisconnectedHasNoTopology ==
  /\ (focus = "mongo" /\ ~m_status.connected)
       => (m_status.topology = NULL /\ m_status.nodes = <<>>)
  /\ (focus = "redis" /\ ~r_status.connected)
       => (r_status.mode = NULL /\ r_status.clusterNodes = <<>>)

\* C2: right after the handler of a lost connection ('disconnected' of the
\* document store, 'close' / 'end' of the cache store) the status has
\* connected = false, no topology (mode) and an empty member list.
C2_DisconnectedClearsTopology ==
  /\ (focus = "mongo" /\ last.op = "disconnected")
       => /\ ~m_status.connected
          /\ m_status.topology = NULL
          /\ m_status.nodes = <<>>
  /\ (focus = "redis" /\ last.op \in {"close", "end"})
       => /\ ~r_status.connected
          /\ r_status.mode = NULL
          /\ r_status.clusterNodes = <<>>

\* a 'disconnected' event that found a classified replica set
C2_Witness ==
  /\ focus = "mongo"
  /\ last.op = "disconnected"
  /\ m_status.replicaSet # NULL

\* C3: at most one classifier run (updateTopology, getRedisInfo) is in flight
\* per backend at any time.
C3_OneClassifierInFlight ==
  /\ Count(m_classifiers) <= 1
  /\ Count(r_calls) <= 1

\* C4: the document store has at most one reconnection timer pending, and a
\* 'disconnected' event that finds a timer pending schedules nothing and leaves
\* currentRetry as it was.
C4_OneTimerPending ==
  /\ Len(m_timers) <= 1
  /\ (focus = "mongo" /\ last.op = "disconnected" /\ last.timers > 0)
       => (Len(m_timers) = last.timers /\ m_currentRetry = last.retry)

\* C5: since the last reset (start or a ready event) at most maxRetries
\* reconnection attempts have been scheduled: no pending attempt is numbered
\* beyond maxRetries.
C5_AtMostMaxRetriesAttempts ==
  /\ m_currentRetry <= maxRetries
  /\ \A i \in 1..Len(m_timers) : m_timers[i].attempt <= maxRetries
  /\ \A i \in 1..Len(r_reconnect) : r_reconnect[i].attempt <= maxRetries

\* C6: giving up is not final.  A ready event that arrives with the retries
\* exhausted and no timer pending leaves connected = true, currentRetry = 0 and
\* isReconnecting = false, and a 'disconnected' event that finds the counter
\* reset schedules the first attempt again.
C6_ReadyAfterGiveUpResets ==
  /\ (focus = "mongo" /\ last.op \in MongoReadyOps
        /\ last.retry >= maxRetries /\ last.timers = 0)
       => /\ m_status.connected
          /\ m_currentRetry = 0
          /\ ~m_isReconnecting
  /\ (focus = "mongo" /\ last.op = "disconnected"
        /\ last.retry = 0 /\ ~last.reconn)
       => /\ m_currentRetry = 1
          /\ m_isReconnecting
          /\ \E i \in 1..Len(m_timers) : m_timers[i].attempt = 1
  /\ (focus = "redis" /\ last.op = "ready")
       => /\ r_status.connected
          /\ r_currentRetry = 0
          /\ ~r_isReconnecting
          /\ r_times = 0

\* a ready event after the document store gave up
C6_Witness ==
  /\ focus = "mongo"
  /\ last.op \in MongoReadyOps
  /\ last.retry >= maxRetries
  /\ last.timers = 0
  /\ ~last.reconn
  /\ m_status.connected

\* C7 as stated: every scheduled reconnection, the k-th since the last reset,
\* waits min(k * retryDelay, 30000) ms, for the timer of the document store and
\* for the retry strategy of the cache store alike.
C7_EveryDelayIsCapped ==
  /\ \A i \in 1..Len(m_timers) :
       m_timers[i].delay = Min(m_timers[i].attempt * retryDelay, 30000)
  /\ \A i \in 1..Len(r_reconnect) :
       r_reconnect[i].delay = Min(r_reconnect[i].attempt * retryDelay, 30000)

\* C7, amended: the timer of the document store for the k-th attempt waits
\* k * retryDelay ms, with no ceiling; the retry strategy of the cache store,
\* called with the count `times`, answers min(times * retryDelay, 30000) ms and
\* so never more than 30000.
C7_DelaysAsScheduled ==
  /\ \A i \in 1..Len(m_timers) :
       m_timers[i].delay = m_timers[i].attempt * retryDelay
  /\ \A i \in 1..Len(r_reconnect) :
       /\ r_reconnect[i].delay = Min(r_reconnect[i].times * retryDelay, 30000)
       /\ r_reconnect[i].delay <= 30000

\* a timer of the document store that waits longer than 30000 ms
C7_Witness ==
  /\ focus = "mongo"
  /\ \E i \in 1..Len(m_timers) :
       /\ m_timers[i].attempt > 1
       /\ m_timers[i].delay > 30000

\* C8: after an 'error' or 'disconnected' event of the document store handled
\* with currentRetry < maxRetries, a reconnection attempt is pending.
C8_ReconnectionPendingAfterFailure ==
  (focus = "mongo" /\ last.op \in {"error", "disconnected"}
     /\ last.retry < maxRetries)
    => MongoPending

\* C9: every ready event ('connected' / 'reconnected' of the document store,
\* 'ready' of the cache store) leaves connected = true, lastError = null,
\* currentRetry = 0 and isReconnecting = false, and starts one classification:
\* one more run in flight, or, where the cache store's classifier needs no
\* answer (cluster and sentinel clients of the ioredis version), the mode
\* written at once.
C9_ReadyResetsAndClassifies ==
  /\ (focus = "mongo" /\ last.op \in MongoReadyOps)
       => /\ m_status.connected
          /\ m_status.lastError = NULL
          /\ m_currentRetry = 0
          /\ ~m_isReconnecting
          /\ Count(m_classifiers) = last.calls + 1
  /\ (focus = "redis" /\ last.op = "ready")
       => /\ r_status.connected
          /\ r_status.lastError = NULL
          /\ r_currentRetry = 0
          /\ ~r_isReconnecting
          /\ \/ Count(r_calls) = last.calls + 1
             \/ /\ r_lib = "ioredis"
                /\ Count(r_calls) = last.calls
                /\ \/ r_isCluster /\ r_status.mode = "cluster"
                   \/ r_isSentinel /\ r_status.mode = "sentinel"

\* a 'reconnected' event that arrives in the middle of the retries, after an
\* error was recorded
C9_Witness ==
  /\ focus = "mongo"
  /\ last.op = "reconnected"
  /\ last.retry > 0
  /\ last.reconn
  /\ m_status.connectionAttempts > 2

MongoOneUpdate ==
  {"connected", "reconnected", "error", "disconnected", "connectRejected"}
RedisOneUpdate ==
  {"ready", "error", "close", "end", "connectThrows", "connectRejected"}

\* C10: connectionAttempts never decreases and is never reset, and a handler
\* that calls updateStatus once raises it by exactly 1 (the timer callback that
\* gives up calls it twice).
C10_AttemptsOnlyGrow ==
  [][/\ m_status'.connectionAttempts >= m_status.connectionAttempts
     /\ r_status'.connectionAttempts >= r_status.connectionAttempts
     /\ (focus = "mongo" /\ last'.op \in MongoOneUpdate)
          => m_status'.connectionAttempts = m_status.connectionAttempts + 1
     /\ (focus = "mongo" /\ last'.op = "timerConnectRejected")
          => m_status'.connectionAttempts - m_status.connectionAttempts
               \in {1, 2}
     /\ (focus = "redis" /\ last'.op \in RedisOneUpdate)
          => r_status'.connectionAttempts = r_status.connectionAttempts + 1]_vars

\* the counter after a run of updates that includes a ready event
C10_Witness ==
  /\ focus = "mongo"
  /\ m_status.connected
  /\ m_status.connectionAttempts >= 4

\* C11: every step that changes a field of a backend's status, the writes of
\* the topology classifier included, also increases connectionAttempts.
C11_EveryMutationCounts ==
  [][/\ m_status' # m_status
          => m_status'.connectionAttempts > m_status.connectionAttempts
     /\ r_status' # r_status
          => r_status'.connectionAttempts > r_status.connectionAttempts]_vars

InitializeCatch_Rethrows(raised, next) == IF raised THEN "aborted" ELSE next

InitializeCatch(raised, next) == next

\* initializeConnections resumes after `await mongoConnection.connect()`
InitializeMongoSettled ==
  /\ focus = "mongo"
  /\ m_started
  /\ m_connecting["init"] = 0
  /\ ~r_started
  /\ last.op \in {"connectResolved", "connectRejected"}
  /\ focus' = InitializeCatch(last.op = "connectRejected", "redis")
  /\ last' = MStep("mongoSettled")
  /\ UNCHANGED <<maxRetries, retryDelay, apiVars, mongoVars, redisVars>>

\* initializeConnections resumes after `await redisConnection.connect()`
InitializeRedisSettled ==
  /\ focus = "redis"
  /\ r_started
  /\ r_connecting = 0
  /\ last.op \in {"connect", "connectThrows", "connectResolved", "connectRejected"}
  /\ focus' = InitializeCatch(last.op \in {"connectThrows", "connectRejected"},
                              "redis")
  /\ last' = RStep("redisSettled")
  /\ UNCHANGED <<maxRetries, retryDelay, apiVars, mongoVars, redisVars>>

StartInit ==
  /\ maxRetries = MaxRetriesCfg
  /\ retryDelay = DefaultRetryDelay
  /\ MongoInit
  /\ RedisInit
  /\ ApiInit
  /\ last = Step("init", 0, FALSE, 0, 0)
  /\ focus = "mongo"
  /\ m_deploy = "mongod"
  /\ \E su \in RedisSetups :
       r_lib = su.lib /\ r_config = su.config /\ r_deploy = su.deploy

StartNext ==
  \/ MongoConnect
  \/ MongoConnectResolve
  \/ MongoConnectReject
  \/ MongoConnected
  \/ MongoError
  \/ MongoDisconnected
  \/ MongoTimerFire
  \/ InitializeMongoSettled
  \/ RedisConnect
  \/ RedisConnectThrows
  \/ RedisConnectResolve
  \/ RedisConnectReject
  \/ RedisReady
  \/ RedisError
  \/ RedisClose
  \/ RedisRetryStrategy
  \/ RedisReconnect
  \/ InitializeRedisSettled

SpecStart == StartInit /\ [][StartNext]_vars

\* C13: connection errors are never fatal.  Whatever the two first connect()
\* calls do and whatever error / disconnect events follow, initializeConnections
\* is never aborted by an exception and the process stays up; once the document
\* store's connect() has settled, raised or not, the cache store's connect() is
\* the next thing initializeConnections does.
C13_ConnectErrorsNotFatal ==
  /\ focus \in {"mongo", "redis"}
  /\ last.op = "mongoSettled" => (focus = "redis" /\ ~r_started)

\* both first connect() calls raised and initializeConnections completed
C13_Witness ==
  /\ focus = "redis"
  /\ last.op = "redisSettled"
  /\ ~m_status.connected /\ m_status.lastError = "ECONNREFUSED"
  /\ ~r_status.connected /\ r_status.lastError # NULL

\* ------------------------------------------------------ cache store: ping
\* ping(): the values it can return.  false without a client or with a client
\* that is not ready (ioredis) / not open (node-redis); otherwise PING is sent
\* and the answer is PONG (true) or an error (false).
\* a ping that sends PING without looking at the client
ping_AlwaysProbes(lib, client) == {TRUE, FALSE}

ping(lib, client) ==
  IF client = "none" THEN {FALSE}
  ELSE IF lib = "ioredis" /\ client # "ready" THEN {FALSE}
  ELSE IF lib = "node-redis" /\ ~IsOpen(client) THEN {FALSE}
  ELSE {TRUE, FALSE}

\* --------------------------------------- every configuration of the cache store
\* Both versions started with every combination of REDIS_CLUSTER_NODES,
\* REDIS_SENTINEL_HOSTS and REDIS_URI, against every kind of server.
Configs == {Config(c, s, u) : c \in BOOLEAN, s \in BOOLEAN, u \in BOOLEAN}

ConfigInit ==
  /\ maxRetries = MaxRetriesCfg
  /\ retryDelay = DefaultRetryDelay
  /\ MongoInit
  /\ RedisInit
  /\ ApiInit
  /\ last = Step("init", 0, FALSE, 0, 0)
  /\ focus = "redis"
  /\ m_deploy = "mongod"
  /\ r_lib \in Libraries
  /\ r_config \in Configs
  /\ r_deploy \in RedisDeployments

SpecConfig == ConfigInit /\ [][RedisNext]_vars

\* C14: with none of the cluster node list, the sentinel hosts and the URI
\* configured, connect() returns without raising and builds no client; the
\* status keeps connected = false, lastError = null and the message 'Redis not
\* configured (optional)'; from then on ping() returns false and no handler
\* runs, so connected never becomes true.
C14_NotConfiguredIsOptional ==
  (focus = "redis" /\ r_started /\ r_config = Config(FALSE, FALSE, FALSE))
    => /\ last.op = "connect"
       /\ r_client = "none"
       /\ r_connecting = 0
       /\ ~r_status.connected
       /\ r_status.lastError = NULL
       /\ r_status.message = "Redis not configured (optional)"
       /\ r_status.connectionAttempts = 1
       /\ ping(r_lib, r_client) = {FALSE}

\* connect() has returned with nothing configured
C14_Witness ==
  /\ focus = "redis"
  /\ r_started
  /\ r_config = Config(FALSE, FALSE, FALSE)
  /\ r_status.message = "Redis not configured (optional)"

\* the transport the precedence cluster > sentinel > standard selects
Precedence(config) ==
  IF config.cluster THEN "cluster"
  ELSE IF config.sentinel THEN "sentinel"
  ELSE IF config.uri THEN "standard"
  ELSE "none"

\* C15: connect() of the cache store selects exactly one transport by the
\* precedence cluster > sentinel > standard, for every combination of
\* REDIS_CLUSTER_NODES, REDIS_SENTINEL_HOSTS and REDIS_URI: a cluster client iff
\* the node list is set, else a sentinel client iff the sentinel hosts are set,
\* else a standard client iff the URI is set; isCluster and isSentinel are
\* never both true.
C15_TransportPrecedence ==
  /\ ~(r_isCluster /\ r_isSentinel)
  /\ (focus = "redis" /\ r_started /\ last.op = "connect")
       => /\ Transport(r_lib, r_config) = Precedence(r_config)
          /\ (r_client # "none") = (Precedence(r_config) # "none")
          /\ r_isCluster = (Precedence(r_config) = "cluster")

\* C16: a server that reports a replica-set name in serverStatus but answers
\* replSetGetStatus with NoReplicationEnabled is classified standalone, with
\* replicaSet = null and no members.
C16_StaleSetNameIsStandalone ==
  (focus = "mongo" /\ m_deploy = "staleSetName" /\ last.op = "replSetGetStatus")
    => /\ m_status.topology = "standalone"
       /\ m_status.replicaSet = NULL
       /\ m_status.nodes = <<>>

\* the replica-set probe of such a server has just failed, connection up
C16_Witness ==
  /\ focus = "mongo"
  /\ m_deploy = "staleSetName"
  /\ last.op = "replSetGetStatus"
  /\ m_status.connected
  /\ m_status.topology = "standalone"

\* ---------------------------------- every outcome of the topology diagnostics
\* The classifier run against every kind of server, including one whose
\* serverStatus carries a replica-set name and names the shard router as its
\* process.
TopologyDeployments == Deployments \cup {"routerWithSetName"}

TopologyInit ==
  /\ maxRetries = MaxRetriesCfg
  /\ retryDelay = DefaultRetryDelay
  /\ MongoInit
  /\ RedisInit
  /\ ApiInit
  /\ last = Step("init", 0, FALSE, 0, 0)
  /\ focus = "mongo"
  /\ m_deploy \in TopologyDeployments
  /\ r_lib = "ioredis" /\ r_config = Config(FALSE, FALSE, FALSE)
  /\ r_deploy = "standalone"

TopologyNext ==
  \/ MongoConnect
  \/ MongoConnected
  \/ MongoReconnected
  \/ MongoFullsetup
  \/ MongoServerStatus
  \/ MongoReplSetGetStatus
  \/ MongoListShards

SpecTopology == TopologyInit /\ [][TopologyNext]_vars

HasSetName(deploy) == deploy \in {"replSet", "staleSetName", "routerWithSetName"}
IsRouter(deploy) == deploy \in {"mongos", "routerWithSetName"}

\* C17: the classification of the document store is first-match-wins.  A
\* server status with a replica-set name leads to the replica-set probe and to
\* replicaSet (standalone when the probe reports replication disabled), even
\* when the process is the shard router; without a name, the shard router leads
\* to listShards and to sharded, with the shards it lists as members; anything
\* else, a failing serverStatus included, is standalone.  The topology is
\* always one of the three values once a classification has completed.
C17_FirstMatchWins ==
  /\ m_status.topology \in {NULL, "standalone", "replicaSet", "sharded"}
  /\ m_classifiers["replSetGetStatus"] > 0 => HasSetName(m_deploy)
  /\ m_classifiers["listShards"] > 0 => (IsRouter(m_deploy) /\ ~HasSetName(m_deploy))
  /\ (focus = "mongo" /\ last.op = "replSetGetStatus")
       => /\ HasSetName(m_deploy)
          /\ m_status.topology =
               (IF m_deploy = "staleSetName" THEN "standalone" ELSE "replicaSet")
          /\ m_status.replicaSet =
               (IF m_deploy = "staleSetName" THEN NULL ELSE "rs0")
          /\ m_status.nodes \in {<<>>, ReplMembers}
  /\ (focus = "mongo" /\ last.op = "listShards")
       => /\ IsRouter(m_deploy) /\ ~HasSetName(m_deploy)
          /\ m_status.topology = "sharded"
          /\ m_status.replicaSet = NULL
          /\ m_status.nodes \in {<<>>, ShardMembers}
  /\ (focus = "mongo" /\ last.op = "serverStatus"
        /\ Count(m_classifiers) < last.calls)
       => /\ m_status.topology = "standalone"
          /\ m_status.replicaSet = NULL
          /\ m_status.nodes = <<>>

\* a server that is both named and a router has been classified replicaSet
C17_Witness ==
  /\ focus = "mongo"
  /\ m_deploy = "routerWithSetName"
  /\ last.op = "replSetGetStatus"
  /\ m_status.topology = "replicaSet"
  /\ m_status.nodes = ReplMembers

\* C18: a client built from the cluster node list (ioredis version) is
\* classified cluster on every 'ready' event, whatever kind of server answers,
\* and no diagnostic command is ever issued for it.
C18_ClusterConfigIsCluster ==
  (focus = "redis" /\ r_lib = "ioredis" /\ r_config.cluster)
    => /\ Count(r_calls) = 0
       /\ last.op = "ready"
            => /\ r_status.connected
               /\ r_status.mode = "cluster"
               /\ r_status.role = "cluster-node"

\* a cluster client became ready again on a server whose INFO says standalone
C18_Witness ==
  /\ focus = "redis"
  /\ r_lib = "ioredis"
  /\ r_config.cluster
  /\ r_deploy = "standalone"
  /\ last.op = "ready"
  /\ r_status.connectionAttempts > 2
  /\ r_status.mode = "cluster"

RedisClassifierOps ==
  {"info", "infoFailed", "sentinelMasters", "clusterNodes", "infoReplication"}

\* C19: with the cache store configured via sentinel hosts, every
\* classification that completes while connected reports mode sentinel and
\* lists the monitored masters, each 'down' if its flags contain down and 'up'
\* otherwise (none when the listing fails), in whatever order connect()
\* resolves, the 'ready' handler runs and checkIfSentinel answers, and whether
\* or not the connected node knows the sentinel command.
C19_SentinelConfigIsSentinel ==
  (focus = "redis" /\ r_config.sentinel /\ ~r_config.cluster
     /\ r_status.connected
     /\ \/ last.op \in RedisClassifierOps /\ Count(r_calls) < last.calls
        \/ last.op = "ready" /\ r_lib = "ioredis")
    => /\ r_status.mode = "sentinel"
       /\ r_status.clusterNodes \in {SentinelMasterList, <<>>}


\* ------------------------------------------- every INFO answer, URI configuration
\* Both versions configured with REDIS_URI alone, against a server for every
\* combination of the three INFO fields (and against the named deployments).
InfoInit ==
  /\ maxRetries = MaxRetriesCfg
  /\ retryDelay = DefaultRetryDelay
  /\ MongoInit
  /\ RedisInit
  /\ ApiInit
  /\ last = Step("init", 0, FALSE, 0, 0)
  /\ focus = "redis"
  /\ m_deploy = "mongod"
  /\ r_lib \in Libraries
  /\ r_config = Config(FALSE, FALSE, TRUE)
  /\ r_deploy \in InfoDeployments \cup RedisDeployments

\* connecting, becoming ready, losing the connection and reconnecting, and the
\* classifier
InfoNext ==
  \/ RedisConnect
  \/ RedisConnectResolve
  \/ RedisReady
  \/ RedisClose
  \/ RedisRetryStrategy
  \/ RedisReconnect
  \/ RedisInfo
  \/ RedisCheckIfSentinel
  \/ RedisSentinelMasters
  \/ RedisClusterNodes
  \/ RedisInfoReplication

SpecInfo == InfoInit /\ [][InfoNext]_vars

\* the fields of the INFO answer of the server, as text (NULL when missing)
AnswerCe == parseRedisInfo(InfoTextOf(r_deploy), "cluster_enabled")
AnswerRole == parseRedisInfo(InfoTextOf(r_deploy), "role")
AnswerSlaves == parseRedisInfo(InfoTextOf(r_deploy), "connected_slaves")

\* a classification of a URI-configured store has just completed from an INFO
\* answer
InfoClassified ==
  /\ focus = "redis"
  /\ r_config = Config(FALSE, FALSE, TRUE)
  /\ r_deploy \in InfoDeployments
  /\ last.op \in {"info", "clusterNodes", "infoReplication"}
  /\ Count(r_calls) < last.calls

\* C20 as stated: clustered if cluster_enabled is '1'; else replicated if role
\* is 'slave'; else replicated if role is 'master' and connected_slaves >= 1;
\* else standalone, missing or unparsable fields included.
C20_ModeFromInfoAsStated ==
  InfoClassified =>
    r_status.mode =
      IF AnswerCe = "1" THEN "cluster"
      ELSE IF AnswerRole = "slave" THEN "replication"
      ELSE IF AnswerRole = "master" /\ AnswerSlaves \in {"1", "2"} THEN "replication"
      ELSE "standalone"

\* C20: for a URI configuration the classifier computes, for every combination
\* of the INFO fields cluster_enabled, role and connected_slaves: clustered if
\* cluster_enabled is '1'; else replicated if role is 'slave'; else replicated
\* if role is 'master' or missing (a missing role counts as master) and
\* connected_slaves >= 1; else standalone, which includes a missing or
\* unparsable cluster_enabled or connected_slaves.
C20_ModeFromInfo ==
  InfoClassified =>
    r_status.mode =
      IF AnswerCe = "1" THEN "cluster"
      ELSE IF AnswerRole = "slave" THEN "replication"
      ELSE IF AnswerRole \in {"master", NULL} /\ AnswerSlaves \in {"1", "2"}
      THEN "replication"
      ELSE "standalone"

\* an answer without a role and with two connected replicas was classified
C20_Witness ==
  /\ InfoClassified
  /\ AnswerCe = NULL
  /\ AnswerRole = NULL
  /\ AnswerSlaves = "2"
  /\ r_status.mode = "replication"

\* the values a classifier may leave: a topology of the backend (NULL before
\* the first classification) and a member list, possibly empty
MongoTopologies == {NULL, "standalone", "replicaSet", "sharded"}
MongoMemberLists == {<<>>, ReplMembers, ShardMembers}
RedisModes == {NULL, "standalone", "replication", "cluster", "sentinel"}
RedisMemberLists ==
  {<<>>, MasterAndSelf, SelfAndSlaves, ClusterNodeList, SentinelMasterList}

\* C21: every step of a classifier, i.e. the return or the failure of one of
\* its diagnostic calls (serverStatus, replSetGetStatus, listShards, SENTINEL
\* masters, INFO, CLUSTER NODES, INFO replication), ends or continues the run
\* without raising, leaves a topology of the enumeration with a member list,
\* and leaves the connected flag and the retry state as they were.
C21_DiagnosticFailuresStayInside ==
  [][/\ (focus = "mongo" /\ last'.op \in Stages)
          => /\ focus' = "mongo"
             /\ Count(m_classifiers') <= Count(m_classifiers)
             /\ m_status'.topology \in MongoTopologies
             /\ Count(m_classifiers') < Count(m_classifiers)
                  => m_status'.topology # NULL
             /\ m_status'.nodes \in MongoMemberLists
             /\ m_status'.connected = m_status.connected
             /\ m_status'.lastError = m_status.lastError
             /\ UNCHANGED <<m_currentRetry, m_isReconnecting, m_timers>>
     /\ (focus = "redis" /\ last'.op \in RedisStages \cup {"infoFailed"})
          => /\ focus' = "redis"
             /\ Count(r_calls') <= Count(r_calls)
             /\ r_status'.mode \in RedisModes
             /\ r_status'.clusterNodes \in RedisMemberLists
             /\ r_status'.connected = r_status.connected
             /\ r_status'.lastError = r_status.lastError
             /\ UNCHANGED <<r_currentRetry, r_isReconnecting, r_times,
                            r_reconnect>>]_vars

\* serverStatus failed against a replica set: the run ended with the fallback
\* classification while the supervisor stayed connected
C21_Witness ==
  /\ focus = "mongo"
  /\ m_deploy = "replSet"
  /\ last.op = "serverStatus"
  /\ Count(m_classifiers) < last.calls
  /\ m_status.connected
  /\ m_status.topology = "standalone"
  /\ m_status.nodes = <<>>

\* ----------------------------------------------------------- routes/status.js
\* The router keeps a redisStatus of its own, fed by a client it creates when
\* REDIS_URI is set, and asks getMongoStatus() for the document store.

\* getMongoStatus() of config/database: the status record of the supervisor
getMongoStatus == m_status

\* redisClient.on('connect')
RouteRedisConnect ==
  /\ r_config.uri
  /\ redisStatus' = [connected |-> TRUE, message |-> "Connected"]
  /\ last' = MStep("redisClient connect")
  /\ UNCHANGED <<focus, maxRetries, retryDelay, proc, dashboard, response, ret, snapshot,
                 mongoVars, redisVars>>

\* redisClient.on('error')
RouteRedisError ==
  /\ r_config.uri
  /\ redisStatus' = [connected |-> FALSE, message |-> "connect ECONNREFUSED"]
  /\ last' = MStep("redisClient error")
  /\ UNCHANGED <<focus, maxRetries, retryDelay, proc, dashboard, response, ret, snapshot,
                 mongoVars, redisVars>>

\* res.status(isHealthy ? 200 : 503).json({ status: isHealthy ? 'healthy' : 'degraded' })
Health(mongoStatus) ==
  LET isHealthy == mongoStatus.connected
  IN [route |-> "health",
      code |-> IF isHealthy THEN 200 ELSE 503,
      status |-> IF isHealthy THEN "healthy" ELSE "degraded"]

\* a /health handler that records the check in the supervisor's status
GetHealth_WritesStatus ==
  /\ response' = Health(getMongoStatus)
  /\ m_status' = [m_status EXCEPT !.message = "checked"]
  /\ last' = MStep("GET /health")
  /\ UNCHANGED <<focus, maxRetries, retryDelay, proc, dashboard, redisStatus, ret, snapshot,
                 redisVars, m_currentRetry, m_isReconnecting, m_timers,
                 m_readyState, m_connecting, m_started, m_opened, m_classifiers,
                 m_deploy, m_reachable>>

\* router.get('/health')
GetHealth ==
  /\ response' = Health(getMongoStatus)
  /\ last' = MStep("GET /health")
  /\ UNCHANGED <<focus, maxRetries, retryDelay, proc, dashboard, redisStatus, ret, snapshot,
                 mongoVars, redisVars>>

\* the report of router.get('/status'); res.json answers 200
StatusReport(mongoStatus, redis) ==
  [route |-> "status", code |-> 200, status |-> "running",
   mongodb |-> mongoStatus.connected, redis |-> redis.connected]

\* router.get('/status'): nothing inside its try raises, so its catch (500)
\* is not entered
GetStatusReport ==
  /\ response' = StatusReport(getMongoStatus, redisStatus)
  /\ last' = MStep("GET /status")
  /\ UNCHANGED <<focus, maxRetries, retryDelay, proc, dashboard, redisStatus, ret, snapshot,
                 mongoVars, redisVars>>

\* The document store's supervisor and the router, with REDIS_URI set or not.
HttpInit ==
  /\ maxRetries = MaxRetriesCfg
  /\ retryDelay = DefaultRetryDelay
  /\ MongoInit
  /\ RedisInit
  /\ ApiInit
  /\ last = Step("init", 0, FALSE, 0, 0)
  /\ focus = "mongo"
  /\ m_deploy = "mongod"
  /\ r_lib = "node-redis"
  /\ r_deploy = "standalone"
  /\ r_config \in {Config(FALSE, FALSE, FALSE), Config(FALSE, FALSE, TRUE)}

HttpNext ==
  \/ MongoConnect
  \/ MongoConnectResolve
  \/ MongoConnectReject
  \/ MongoTimerFire
  \/ MongoConnected
  \/ MongoReconnected
  \/ MongoError
  \/ MongoDisconnected
  \/ MongoServerStatus
  \/ RouteRedisConnect
  \/ RouteRedisError
  \/ GetHealth
  \/ GetStatusReport

SpecHttp == HttpInit /\ [][HttpNext]_vars

\* C22: the answer of GET /health says 'healthy' exactly when the document
\* store is connected and the cache store is connected or not configured;
\* with the cache store configured and disconnected it says 'degraded'.
C22_HealthCountsBothBackends ==
  (response.route = "health" /\ last.op = "GET /health")
    => (response.status = "healthy"
          <=> /\ m_status.connected
              /\ (redisStatus.connected \/ ~r_config.uri))

\* C23: a request to /health or /status is answered with a 2xx status code in
\* every combination of backend states, all backends down included.
C23_RequestsAlwaysSucceed ==
  response.route \in {"health", "status"}
    => (200 <= response.code /\ response.code <= 299)

\* ------------------------------------------------- cache store: ping() called
\* ping() up to its first await: it returns false, or sends PING and waits
RedisPing ==
  /\ focus = "redis"
  /\ ret' = IF TRUE \in ping(r_lib, r_client) THEN "PING sent" ELSE "false"
  /\ last' = RStep("ping")
  /\ UNCHANGED <<focus, maxRetries, retryDelay, proc, dashboard, redisStatus, response, snapshot,
                 mongoVars, redisVars>>

\* await this.client.ping() returns (result === 'PONG') or throws (the catch
\* returns false)
RedisPingAnswer ==
  /\ focus = "redis"
  /\ ret = "PING sent"
  /\ \E answer \in {"PONG", "rejected"} :
       /\ ret' = IF answer = "PONG" THEN "true" ELSE "false"
       /\ last' = RStep(IF answer = "PONG" THEN "pong" ELSE "pingRejected")
  /\ UNCHANGED <<focus, maxRetries, retryDelay, proc, dashboard, redisStatus, response, snapshot,
                 mongoVars, redisVars>>

PingInit ==
  /\ Init
  /\ focus = "redis"

PingNext == RedisNext \/ RedisPing \/ RedisPingAnswer

SpecPing == PingInit /\ [][PingNext]_vars

PingOps == {"ping", "pong", "pingRejected"}

\* C24: ping() of the cache store never raises and returns a boolean: false at
\* once when there is no client or the client is not ready (ioredis) / not open
\* (node-redis), false when the probe is rejected, true only when the probe
\* answers PONG; no step of it changes the status record or the retry state.
C24_PingIsABooleanProbe ==
  [][(focus = "redis" /\ last'.op \in PingOps)
       => /\ ret' \in {"true", "false", "PING sent"}
          /\ (last'.op = "ping" /\ r_client = "none") => ret' = "false"
          /\ (last'.op = "ping" /\ r_lib = "ioredis" /\ r_client # "ready")
               => ret' = "false"
          /\ (last'.op = "ping" /\ r_lib = "node-redis" /\ ~IsOpen(r_client))
               => ret' = "false"
          /\ last'.op = "pingRejected" => ret' = "false"
          /\ ret' = "true" => last'.op = "pong"
          /\ r_status' = r_status
          /\ UNCHANGED <<r_currentRetry, r_isReconnecting, r_times, r_reconnect>>]_vars

\* a probe sent on a ready client was answered PONG
C24_Witness ==
  /\ focus = "redis"
  /\ last.op = "pong"
  /\ ret = "true"
  /\ r_status.connected
  /\ r_client = "ready"

\* ------------------------------------------------------------- disconnect()
\* a catch that lets the error out
DisconnectCatch_Rethrows(threw) == IF threw THEN "raised" ELSE "returned"

\* the last catch of disconnect(): the error is logged and the call returns
DisconnectCatch(threw) == "returned"

\* MongoDBConnection.disconnect() up to await mongoose.disconnect(): the
\* driver starts closing
MongoDisconnect ==
  /\ focus = "mongo"
  /\ ret \in {"none", "returned"}
  /\ ret' = "closing"
  /\ m_readyState' = IF m_readyState \in {1, 2} THEN 3 ELSE m_readyState
  /\ last' = MStep("disconnect")
  /\ UNCHANGED <<focus, maxRetries, retryDelay, proc, dashboard, redisStatus, response, snapshot,
                 redisVars, m_status, m_currentRetry, m_isReconnecting, m_timers,
                 m_connecting, m_started, m_opened, m_classifiers, m_deploy, m_reachable>>

\* await mongoose.disconnect() resolves, the connection being closed, or
\* rejects; either way disconnect() logs and returns
MongoDisconnectSettled ==
  /\ focus = "mongo"
  /\ ret = "closing"
  /\ \E threw \in BOOLEAN :
       /\ ~threw => m_readyState = 0
       /\ ret' = DisconnectCatch(threw)
       /\ last' = MStep(IF threw THEN "disconnectFailed" ELSE "disconnected gracefully")
  /\ UNCHANGED <<focus, maxRetries, retryDelay, proc, dashboard, redisStatus, response, snapshot,
                 redisVars, mongoVars>>

\* RedisConnection.disconnect() up to await this.client.quit(); without a
\* client it returns at once
RedisDisconnect ==
  /\ focus = "redis"
  /\ ret \in {"none", "returned"}
  /\ ret' = IF r_client = "none" THEN "returned" ELSE "quitting"
  /\ last' = RStep("disconnect")
  /\ UNCHANGED <<focus, maxRetries, retryDelay, proc, dashboard, redisStatus, response, snapshot,
                 mongoVars, redisVars>>

\* await this.client.quit() resolves, the connection being closed, or rejects.
\* The catch forces the close: this.client.disconnect() (ioredis version, a
\* synchronous call inside a try), await this.client.disconnect() (node-redis
\* version).
RedisQuitSettled ==
  /\ focus = "redis"
  /\ ret = "quitting"
  /\ \E quitThrew \in BOOLEAN, forceThrew \in BOOLEAN :
       /\ ~quitThrew => (r_client \in {"close", "end"} /\ ~forceThrew)
       /\ ret' = IF ~quitThrew THEN "returned"
                 ELSE IF r_lib = "node-redis" THEN "forcing"
                 ELSE DisconnectCatch(forceThrew)
       /\ last' = RStep(IF ~quitThrew THEN "quit"
                        ELSE IF r_lib = "node-redis" \/ ~forceThrew THEN "quitFailed"
                        ELSE "forceFailed")
  /\ UNCHANGED <<focus, maxRetries, retryDelay, proc, dashboard, redisStatus, response, snapshot,
                 mongoVars, redisVars>>

\* node-redis version: await this.client.disconnect() resolves or rejects
RedisForceSettled ==
  /\ focus = "redis"
  /\ ret = "forcing"
  /\ \E forceThrew \in BOOLEAN :
       /\ ret' = DisconnectCatch(forceThrew)
       /\ last' = RStep(IF forceThrew THEN "forceFailed" ELSE "forced")
  /\ UNCHANGED <<focus, maxRetries, retryDelay, proc, dashboard, redisStatus, response, snapshot,
                 mongoVars, redisVars>>

\* both supervisors with their connection events, and disconnect() called at
\* any time
DisconnectNext ==
  \/ MongoConnect
  \/ MongoConnectResolve
  \/ MongoConnectReject
  \/ MongoTimerFire
  \/ MongoConnected
  \/ MongoDisconnected
  \/ MongoServerStatus
  \/ MongoDisconnect
  \/ MongoDisconnectSettled
  \/ RedisConnect
  \/ RedisReady
  \/ RedisClose
  \/ RedisEnd
  \/ RedisRetryStrategy
  \/ RedisReconnect
  \/ RedisDisconnect
  \/ RedisQuitSettled
  \/ RedisForceSettled

SpecDisconnect == Init /\ [][DisconnectNext]_vars

\* C25: disconnect() never raises, for either backend.  It first awaits the
\* graceful close (mongoose.disconnect(), client.quit()); when quit() fails the
\* cache store forces the close, and when that fails too the call still
\* returns; without a client the cache store's disconnect() returns at once
\* and changes nothing.
C25_DisconnectNeverRaises ==
  [][/\ ret' \in {"none", "closing", "quitting", "forcing", "returned",
                  "true", "false", "PING sent"}
     /\ (focus = "mongo" /\ last'.op = "disconnect") => ret' = "closing"
     /\ (focus = "mongo" /\ last'.op \in {"disconnectFailed", "disconnected gracefully"})
          => ret' = "returned"
     /\ (focus = "redis" /\ last'.op = "disconnect")
          => /\ ret' = (IF r_client = "none" THEN "returned" ELSE "quitting")
             /\ UNCHANGED redisVars
     /\ (focus = "redis" /\ last'.op = "quitFailed")
          => ret' = (IF r_lib = "node-redis" THEN "forcing" ELSE "returned")
     /\ (focus = "redis" /\ last'.op \in {"quit", "forced", "forceFailed"})
          => ret' = "returned"]_vars

\* the graceful and the forced close of the cache store both failed and
\* disconnect() returned
C25_Witness ==
  /\ focus = "redis"
  /\ r_client # "none"
  /\ last.op = "forceFailed"
  /\ ret = "returned"

\* -------------------------------------------------------------- getStatus()
\* a getter that counts the call like an update
StatusAfterGet_Counts(status) ==
  [status EXCEPT !.connectionAttempts = @ + 1]

\* this.status once getStatus() has returned: the getters assign nothing
StatusAfterGet(status) == status

\* { ...this.status, readyState: mongoose.connection.readyState, ... }
MongoReport(status) ==
  [f \in DOMAIN status \cup {"readyState"} |->
     IF f = "readyState" THEN m_readyState ELSE status[f]]

\* { ...this.status, clientStatus: ..., isCluster: ..., isSentinel: ... }
RedisReport(status) ==
  [f \in DOMAIN status \cup {"clientStatus", "isCluster", "isSentinel"} |->
     CASE f = "clientStatus" ->
            (IF r_client = "none" THEN "not_initialized" ELSE r_client)
       [] f = "isCluster" -> (IF r_isCluster THEN "true" ELSE "false")
       [] f = "isSentinel" -> (IF r_isSentinel THEN "true" ELSE "false")
       [] OTHER -> status[f]]

\* MongoDBConnection.getStatus()
MongoGetStatus ==
  /\ focus = "mongo"
  /\ m_status' = StatusAfterGet(m_status)
  /\ snapshot' = [taken |-> TRUE, byRef |-> FALSE, status |-> MongoReport(m_status')]
  /\ last' = MStep("getStatus")
  /\ UNCHANGED <<focus, maxRetries, retryDelay, proc, dashboard, redisStatus, response, ret,
                 redisVars, m_currentRetry, m_isReconnecting, m_timers,
                 m_readyState, m_connecting, m_started, m_opened, m_classifiers,
                 m_deploy, m_reachable>>

\* RedisConnection.getStatus(): a copy (ioredis version), this.status itself
\* (node-redis version)
RedisGetStatus ==
  /\ focus = "redis"
  /\ r_status' = StatusAfterGet(r_status)
  /\ snapshot' = IF r_lib = "ioredis"
                 THEN [taken |-> TRUE, byRef |-> FALSE, status |-> RedisReport(r_status')]
                 ELSE [taken |-> TRUE, byRef |-> TRUE, status |-> r_status']
  /\ last' = RStep("getStatus")
  /\ UNCHANGED <<focus, maxRetries, retryDelay, proc, dashboard, redisStatus, response, ret,
                 mongoVars, r_lib, r_config, r_deploy, r_currentRetry,
                 r_isReconnecting, r_isCluster, r_isSentinel, r_client, r_times,
                 r_reconnect, r_connecting, r_started, r_calls>>

\* One deployment per supervisor and version, and getStatus() called at any time.
GetStatusInit ==
  /\ maxRetries = MaxRetriesCfg
  /\ retryDelay = DefaultRetryDelay
  /\ MongoInit
  /\ RedisInit
  /\ ApiInit
  /\ last = Step("init", 0, FALSE, 0, 0)
  /\ focus \in {"mongo", "redis"}
  /\ m_deploy = "replSet"
  /\ r_lib \in Libraries
  /\ r_config = Config(FALSE, FALSE, TRUE)
  /\ r_deploy = "master"

GetStatusNext ==
  \/ MongoConnect
  \/ MongoConnectResolve
  \/ MongoConnected
  \/ MongoDisconnected
  \/ MongoServerStatus
  \/ MongoReplSetGetStatus
  \/ MongoGetStatus
  \/ RedisConnect
  \/ RedisReady
  \/ RedisClose
  \/ RedisRetryStrategy
  \/ RedisReconnect
  \/ RedisCheckIfSentinel
  \/ RedisInfo
  \/ RedisInfoReplication
  \/ RedisGetStatus

SpecGetStatus == GetStatusInit /\ [][GetStatusNext]_vars

\* C26: getStatus() is read-only: a call leaves the status record
\* (connectionAttempts included), the retry state, the pending timers and every
\* other field of the supervisor unchanged, and a call that follows a call with
\* no event in between returns an equal record.
C26_GetStatusIsReadOnly ==
  [][last'.op = "getStatus"
       => /\ UNCHANGED <<mongoVars, redisVars>>
          /\ last.op = "getStatus" => snapshot'.status = snapshot.status]_vars

\* getStatus() was called twice in a row on a connected document store with
\* a reconnection behind it
C26_Witness ==
  /\ focus = "mongo"
  /\ last.op = "getStatus"
  /\ last.calls = 0
  /\ snapshot.taken
  /\ snapshot.status.connected
  /\ snapshot.status.connectionAttempts >= 3
  /\ snapshot.status = MongoReport(m_status)

\* C27: getStatus() returns an immutable snapshot: the record a call returned
\* keeps its field values whatever events, status updates and classifier
\* completions follow.
C27_SnapshotIsImmutable ==
  [][(snapshot.taken /\ last'.op # "getStatus")
       => snapshot'.status = snapshot.status]_vars

\* C28 as stated: currentRetry is incremented exactly when a reconnection
\* attempt fails, once per failed attempt, for each backend (the attempt made
\* by the timer callback of the document store; the attempt after which the
\* client of the cache store consults its retry strategy).
C28_CountsFailedAttempts ==
  [][/\ focus = "mongo"
          => (m_currentRetry' = m_currentRetry + 1
                <=> last'.op = "timerConnectRejected")
     /\ focus = "redis"
          => (r_currentRetry' = r_currentRetry + 1
                <=> last'.op = "retryStrategy")]_vars

\* C28: the retry state's counter.  The document store's currentRetry grows by
\* one for each reconnection timer that is scheduled (by the 'disconnected'
\* handler, by the catch of connect() and by the timer callback after a failed
\* attempt) and by nothing else; it is zero after every ready event; once it
\* has reached maxRetries it changes only by a ready event.  The cache store's
\* currentRetry is never incremented: it is zero throughout (its client counts
\* the retries itself).
C28_CountsScheduledAttempts ==
  [][/\ (focus = "mongo" /\ last'.op \in MongoReadyOps) => m_currentRetry' = 0
     /\ (focus = "mongo" /\ last'.op \notin MongoReadyOps)
          => /\ m_currentRetry' >= m_currentRetry
             /\ m_currentRetry' - m_currentRetry =
                  (IF last'.op = "timer" THEN Len(m_timers') + 1 ELSE Len(m_timers'))
                    - Len(m_timers)
             /\ m_currentRetry' > m_currentRetry
                  => last'.op \in {"disconnected", "connectRejected",
                                   "timerConnectRejected"}
             /\ m_currentRetry >= maxRetries => m_currentRetry' = m_currentRetry
     /\ r_currentRetry' = 0]_vars

\* the second attempt failed with maxRetries = 2: the counter stayed at 2
C28_Witness ==
  /\ focus = "mongo"
  /\ last.op = "timerConnectRejected"
  /\ last.retry = maxRetries
  /\ m_currentRetry = maxRetries
  /\ m_timers = <<>>
  /\ ~m_isReconnecting

\* C29: whenever a supervisor stops scheduling reconnections because the retry
\* ceiling is reached (the document store's 'disconnected' handler, catch of
\* connect() or timer callback leaves currentRetry >= maxRetries with no timer
\* and no connect pending; the cache store's retry strategy tells the client to
\* stop), the status it leaves has connected = false and reports the
\* exhaustion in message and lastError.
C29_ExhaustionIsRecorded ==
  /\ (/\ focus = "mongo"
      /\ last.op \in {"disconnected", "connectRejected", "timerConnectRejected"}
      /\ m_currentRetry >= maxRetries
      /\ m_timers = <<>>
      /\ Count(m_connecting) = 0)
       => /\ ~m_status.connected
          /\ m_status.message = MaxRetriesUpdates.message
          /\ m_status.lastError = MaxRetriesUpdates.lastError
  /\ (/\ focus = "redis"
      /\ last.op = "retryStrategy"
      /\ r_client = "end")
       => /\ ~r_status.connected
          /\ r_status.message = "Max retries reached"
          /\ r_status.lastError = "Max retries reached"

\* C30: a classifier run is started only in a state where the backend's
\* connected flag is true, whichever event starts it: 'connected',
\* 'reconnected', 'fullsetup' and 'all' of the document store, 'ready' of the
\* cache store.
C30_ClassifierStartsWhenConnected ==
  [][/\ (focus = "mongo" /\ Count(m_classifiers') > Count(m_classifiers))
          => m_status'.connected
     /\ (focus = "redis" /\ last'.op = "ready" /\ Count(r_calls') > Count(r_calls))
          => r_status'.connected]_vars


\* ---------------------------------------------------- server.js: shutdown
\* SIGTERM / SIGINT deliveries followed
MaxSignals == 2

\* process.exit(code): nothing of the process runs afterwards
Exit(p, code) == [p EXCEPT !.exit = code]

\* a forced-shutdown timer that only logs
ForcedExit_OnlyLogs(p) == [p EXCEPT !.timeouts = @ - 1]

\* the setTimeout callback of gracefulShutdown: log, process.exit(1)
ForcedExit(p) == Exit([p EXCEPT !.timeouts = @ - 1], "1")

\* what follows await Promise.all([...disconnect()]) in the close callback:
\* process.exit(0) once both calls have returned, process.exit(1) from the
\* catch when one of them raised, nothing while one is still awaited
AfterDisconnects(p, run) ==
  IF "raised" \in {run.mongo, run.redis} THEN Exit(p, "1")
  ELSE IF run.mongo = "returned" /\ run.redis = "returned" THEN Exit(p, "0")
  ELSE p

\* the supervisor followed, until the process has exited
Running(p) == IF p.exit = "none" THEN focus ELSE "exited"

\* how redisConnection.disconnect() starts: it returns at once without a
\* client, else it awaits client.quit(); when the behaviour follows the
\* document store the cache-store client may be in either state
RedisDisconnectStarts ==
  IF focus = "redis"
  THEN {IF r_client = "none" THEN "returned" ELSE "closing"}
  ELSE {"returned", "closing"}

\* process.on('SIGTERM' / 'SIGINT'): gracefulShutdown(signal) registers the
\* close callback, stops the listener and arms the 30 s timer
ShutdownSignal ==
  /\ proc.exit = "none"
  /\ proc.signals < MaxSignals
  /\ proc' = [proc EXCEPT !.signals = @ + 1,
                          !.server = IF @ = "listening" THEN "closing" ELSE @,
                          !.callbacks = @ + 1,
                          !.timeouts = @ + 1]
  /\ \E signal \in {"SIGTERM", "SIGINT"} : last' = MStep(signal)
  /\ UNCHANGED <<focus, maxRetries, retryDelay, dashboard, redisStatus, response, ret, snapshot,
                 mongoVars, redisVars>>

\* the server emits 'close': every registered callback logs and calls both
\* disconnect()s, which run up to their first await
ShutdownServerClosed ==
  /\ proc.exit = "none"
  /\ proc.callbacks > 0
  /\ \E rd \in RedisDisconnectStarts :
       LET run == [mongo |-> "closing", redis |-> rd]
       IN proc' = [proc EXCEPT !.server = "closed",
                               !.callbacks = 0,
                               !.runs = @ \o [i \in 1..proc.callbacks |-> run]]
  /\ m_readyState' = IF focus = "mongo" /\ m_readyState \in {1, 2} THEN 3
                     ELSE m_readyState
  /\ last' = MStep("HTTP server closed")
  /\ UNCHANGED <<focus, maxRetries, retryDelay, dashboard, redisStatus, response, ret, snapshot,
                 redisVars, m_status, m_currentRetry, m_isReconnecting, m_timers,
                 m_connecting, m_started, m_opened, m_classifiers, m_deploy, m_reachable>>

\* one awaited disconnect() of one close callback settles, and the callback
\* goes on when Promise.all has settled
ShutdownDisconnectSettled ==
  /\ proc.exit = "none"
  /\ \E i \in 1..Len(proc.runs), who \in {"mongo", "redis"}, threw \in BOOLEAN :
       /\ proc.runs[i][who] = "closing"
       /\ LET run == [proc.runs[i] EXCEPT ![who] = DisconnectCatch(threw)]
          IN proc' = AfterDisconnects([proc EXCEPT !.runs[i] = run], run)
       /\ last' = MStep(who \o " disconnect settled")
  /\ focus' = Running(proc')
  /\ UNCHANGED <<maxRetries, retryDelay, dashboard, redisStatus, response, ret, snapshot,
                 mongoVars, redisVars>>

\* a forced-shutdown timer fires
ShutdownTimeout ==
  /\ proc.exit = "none"
  /\ proc.timeouts > 0
  /\ proc' = ForcedExit(proc)
  /\ focus' = Running(proc')
  /\ last' = MStep("Forced shutdown after timeout")
  /\ UNCHANGED <<maxRetries, retryDelay, dashboard, redisStatus, response, ret, snapshot,
                 mongoVars, redisVars>>

\* the process from start to exit: both supervisors connect and lose their
\* connection, signals arrive at any time
ShutdownNext ==
  \/ MongoConnect
  \/ MongoConnectResolve
  \/ MongoConnected
  \/ MongoDisconnected
  \/ RedisConnect
  \/ RedisReady
  \/ RedisClose
  \/ ShutdownSignal
  \/ ShutdownServerClosed
  \/ ShutdownDisconnectSettled
  \/ ShutdownTimeout

\* timers of a live event loop fire; nothing makes the server close or a
\* disconnect settle
SpecShutdown == Init /\ [][ShutdownNext]_vars /\ WF_vars(ShutdownTimeout)

\* C31: after a shutdown signal the process always eventually exits.  It exits
\* with code 0 only when the HTTP server has closed and, in one close
\* callback, both disconnect() calls have returned; every other exit is the
\* forced one of the 30 s timer, which fires whether or not the server closes
\* or a disconnect settles, and however many signals were delivered.
C31_ShutdownAlwaysExits ==
  /\ [](proc.exit = "0" =>
          /\ proc.server = "closed"
          /\ \E i \in 1..Len(proc.runs) :
               proc.runs[i].mongo = "returned" /\ proc.runs[i].redis = "returned")
  /\ [](proc.exit = "1" => last.op = "Forced shutdown after timeout")
  /\ [](proc.exit # "none" => focus = "exited")
  /\ (proc.signals > 0) ~> (proc.exit # "none")

\* two signals were delivered, the server closed, one disconnect() never
\* settled and the timer forced the exit
C31_Witness ==
  /\ proc.signals = 2
  /\ proc.server = "closed"
  /\ proc.exit = "1"
  /\ \E i \in 1..Len(proc.runs) : proc.runs[i].mongo = "closing"


\* ------------------------------------------------------ end-to-end recovery
\* The process starts with the document store unreachable; the store comes up
\* at some moment and stays up.  While it is down mongoose.connect() rejects,
\* once it is up the pending connect opens the connection.
RecoveryInit ==
  /\ focus = "mongo"
  /\ maxRetries \in 1..MaxRetriesCfg
  /\ retryDelay = DefaultRetryDelay
  /\ m_reachable = FALSE
  /\ m_deploy \in {"mongod", "replSet"}
  /\ MongoConstructed
  /\ RedisInit
  /\ ApiInit
  /\ r_lib = "node-redis"
  /\ r_config = Config(FALSE, FALSE, TRUE)
  /\ r_deploy = "master"
  /\ last = Step("init", 0, FALSE, 0, 0)

\* the document store starts accepting connections
MongoComesUp ==
  /\ focus = "mongo"
  /\ ~m_reachable
  /\ m_reachable' = TRUE
  /\ last' = MStep("reachable")
  /\ UNCHANGED <<cfgVars, redisVars, m_status, m_currentRetry, m_isReconnecting,
                 m_timers, m_readyState, m_connecting, m_started, m_opened,
                 m_classifiers, m_deploy>>

\* mongoose.connect() against a store that is down
RecoveryConnectReject == ~m_reachable /\ MongoConnectReject

\* mongoose.connect() against a store that is up
RecoveryConnected == m_reachable /\ MongoConnected

RecoveryNext ==
  \/ MongoConnect
  \/ RecoveryConnectReject
  \/ RecoveryConnected
  \/ MongoConnectResolve
  \/ MongoTimerFire
  \/ MongoComesUp
  \/ MongoServerStatus
  \/ MongoReplSetGetStatus
  \/ GetHealth

\* timers fire, pending connects settle, diagnostic commands are answered
RecoveryFairness ==
  /\ WF_vars(MongoConnect)
  /\ WF_vars(RecoveryConnectReject)
  /\ WF_vars(RecoveryConnected)
  /\ WF_vars(MongoConnectResolve)
  /\ WF_vars(MongoTimerFire)
  /\ WF_vars(MongoServerStatus)
  /\ WF_vars(MongoReplSetGetStatus)

SpecRecovery == RecoveryInit /\ [][RecoveryNext]_vars /\ RecoveryFairness

\* C32: end-to-end recovery.  With the document store down at start, the
\* first connect() is over without ending the process (its caller,
\* initializeConnections, catches what connect() re-raises) and /health reports
\* degraded; once the store is reachable and stays so, /health eventually
\* reports healthy and the topology is populated.
C32_EndToEndRecovery ==
  /\ [](~m_status.connected => Health(getMongoStatus).status = "degraded")
  /\ m_reachable ~> (/\ Health(getMongoStatus).status = "healthy"
                     /\ m_status.topology # NULL)


\* ------------------------------------------------------------- ownership
\* Either supervisor with its events, timers and operations, and the status
\* routes requested at any time.
OwnershipInit ==
  /\ maxRetries = MaxRetriesCfg
  /\ retryDelay = DefaultRetryDelay
  /\ MongoInit
  /\ RedisInit
  /\ ApiInit
  /\ last = Step("init", 0, FALSE, 0, 0)
  /\ focus \in {"mongo", "redis"}
  /\ m_deploy = "mongod"
  /\ r_lib \in Libraries
  /\ r_config = Config(FALSE, FALSE, TRUE)
  /\ r_deploy = "master"

OwnershipNext ==
  \/ MongoConnect
  \/ MongoConnectResolve
  \/ MongoConnectReject
  \/ MongoTimerFire
  \/ MongoConnected
  \/ MongoDisconnected
  \/ MongoServerStatus
  \/ RedisConnect
  \/ RedisReady
  \/ RedisClose
  \/ RedisRetryStrategy
  \/ RedisReconnect
  \/ RedisCheckIfSentinel
  \/ RedisInfo
  \/ RedisInfoReplication
  \/ RouteRedisConnect
  \/ GetHealth
  \/ GetStatusReport

SpecOwnership == OwnershipInit /\ [][OwnershipNext]_vars

RouteOps == {"GET /health", "GET /status", "redisClient connect"}

\* C33: each supervisor owns its state.  No event, timer or operation of one
\* backend changes the other backend's status record or retry state, and the
\* handlers of the status routes (with the client the router keeps for itself)
\* change neither supervisor's status record or retry state.
C33_SupervisorsOwnTheirState ==
  [][/\ (focus = "mongo" /\ last'.op \notin RouteOps)
          => UNCHANGED <<r_status, r_currentRetry, r_isReconnecting, r_times, r_reconnect>>
     /\ (focus = "redis" /\ last'.op \notin RouteOps)
          => UNCHANGED <<m_status, m_currentRetry, m_isReconnecting, m_timers>>
     /\ last'.op \in RouteOps
          => UNCHANGED <<m_status, m_currentRetry, m_isReconnecting, m_timers,
                         r_status, r_currentRetry, r_isReconnecting, r_times,
                         r_reconnect>>]_vars

\* /health answered 503 from a supervisor that has counted a failed attempt
\* and holds a pending reconnection timer
C33_Witness ==
  /\ last.op = "GET /health"
  /\ response.code = 503
  /\ m_status.connectionAttempts > 0
  /\ Len(m_timers) = 1
  /\ m_isReconnecting


\* ------------------------------------------------- the default retry cycle
\* MONGO_MAX_RETRIES and MONGO_RETRY_DELAY unset, and a document store that
\* stays down from the start of the process: every connect() rejects, no
\* connection event arrives.  The status is read at any time.
DefaultsInit ==
  /\ maxRetries = DefaultMaxRetries
  /\ retryDelay = DefaultRetryDelay
  /\ MongoInit
  /\ RedisInit
  /\ ApiInit
  /\ last = Step("init", 0, FALSE, 0, 0)
  /\ focus = "mongo"
  /\ m_deploy = "mongod"
  /\ r_lib = "ioredis"
  /\ r_config = Config(FALSE, FALSE, FALSE)
  /\ r_deploy = "standalone"

DefaultsNext ==
  \/ MongoConnect
  \/ MongoConnectReject
  \/ MongoTimerFire
  \/ MongoGetStatus
  \/ GetHealth

SpecDefaults == DefaultsInit /\ [][DefaultsNext]_vars

\* the delays of the timers of attempts 1..n, added up
RECURSIVE DelaySum(_)
DelaySum(n) == IF n = 0 THEN 0 ELSE MongoDelay(retryDelay, n) + DelaySum(n - 1)

GaveUp == m_status.message = "Max reconnection attempts reached"

\* C34: with the default settings and a document store that stays down, the
\* supervisor schedules one timer per attempt 1..10, attempt k after
\* 5000 * k ms, 275000 ms in all; after the tenth timer's connect() has failed
\* it gives up (nothing pending, 'Max reconnection attempts reached') and the
\* process has not exited.
C34_DefaultCycleIs275Seconds ==
  /\ [][Len(m_timers') > Len(m_timers) =>
          /\ m_currentRetry' = m_currentRetry + 1
          /\ m_currentRetry' <= 10
          /\ Len(m_timers') = 1
          /\ m_timers'[1].attempt = m_currentRetry'
          /\ m_timers'[1].delay = 5000 * m_currentRetry'
          /\ DelaySum(m_currentRetry') = DelaySum(m_currentRetry) + m_timers'[1].delay]_vars
  /\ [](m_currentRetry <= 10)
  /\ []((m_started /\ Len(m_timers) = 0 /\ Count(m_connecting) = 0) => GaveUp)
  /\ [](GaveUp => /\ m_currentRetry = 10
                  /\ DelaySum(m_currentRetry) = 275000
                  /\ m_status.connectionAttempts = 12
                  /\ Len(m_timers) = 0
                  /\ ~m_isReconnecting
                  /\ proc.exit = "none")

\* the supervisor has given up after the tenth attempt, and /health still
\* answers
C34_Witness ==
  /\ GaveUp
  /\ m_currentRetry = 10
  /\ last.op = "GET /health"
  /\ response.code = 503


\* C35: a classifier run started before a lost connection never writes after
\* the loss has been handled.  While the status still carries the message of
\* the 'disconnected' handler ('close' / 'end' of the cache store), that is
\* until the next ready event or connect() failure is handled, a classifier
\* step that completes leaves the topology (mode), the replica-set name (role)
\* and the member list cleared.
C35_StaleClassifierNeverWrites ==
  [][/\ (focus = "mongo" /\ m_status.message = "Disconnected" /\ last'.op \in Stages)
          => /\ m_status'.topology = NULL
             /\ m_status'.replicaSet = NULL
             /\ m_status'.nodes = <<>>
     /\ (focus = "redis" /\ r_status.message = "Connection closed"
           /\ last'.op \in RedisClassifierOps)
          => /\ r_status'.mode = NULL
             /\ r_status'.role = NULL
             /\ r_status'.clusterNodes = <<>>]_vars


\* C36: orderly shutdown does not restart the connection.  Once disconnect()
\* of the document-store supervisor has been called, the 'disconnected' event
\* of the closing connection schedules no reconnection timer, and no timer
\* that fires afterwards calls connect().
C36_ShutdownDoesNotReconnect ==
  [][(focus = "mongo" /\ ret \in {"closing", "returned"})
       => /\ (last'.op = "disconnected" /\ m_readyState = 3)
               => (Len(m_timers') <= Len(m_timers) /\ ~m_isReconnecting')
          /\ last'.op = "timer" => Count(m_connecting') <= Count(m_connecting)]_vars


\* C37: in every reachable state of the document-store supervisor
\* 0 <= currentRetry <= maxRetries, whatever the interleaving of events,
\* connect() failures and timer firings: handleReconnection increments without
\* looking at the ceiling, each of its three callers looks first.
C37_CurrentRetryWithinBounds ==
  focus = "mongo" => (0 <= m_currentRetry /\ m_currentRetry <= maxRetries)

\* a 'disconnected' event handled at the ceiling: nothing was scheduled
C37_Witness ==
  /\ focus = "mongo"
  /\ last.op = "disconnected"
  /\ last.retry = maxRetries
  /\ ~last.reconn
  /\ m_currentRetry = maxRetries
  /\ Len(m_timers) = 0


\* ------------------------------------------------ the retry loop terminates
\* The stays-down scenario with a live event loop: the first connect() is
\* called, pending timers fire, awaited connects settle.
SpecDownFair ==
  /\ DownInit
  /\ [][DownNext]_vars
  /\ WF_vars(MongoConnect)
  /\ WF_vars(MongoTimerFire)
  /\ WF_vars(MongoConnectReject)

MongoQuiescent ==
  /\ Len(m_timers) = 0
  /\ Count(m_connecting) = 0
  /\ ~m_isReconnecting
  /\ m_currentRetry = maxRetries

\* C38: with a document store that never becomes reachable and no other
\* event, the retry loop terminates: the supervisor reaches, and stays in, a
\* state with no timer pending, no connect() under way, isReconnecting = false
\* and currentRetry = maxRetries; and isReconnecting is never true without a
\* pending timer or a timer callback awaiting its connect().
C38_RetryLoopTerminates ==
  /\ []((focus = "mongo" /\ m_isReconnecting) => MongoPending)
  /\ [](focus = "mongo" => <>[]MongoQuiescent)

\* the loop has ended at a ceiling of more than one attempt
C38_Witness ==
  /\ focus = "mongo"
  /\ MongoQuiescent
  /\ maxRetries > 1
  /\ last.op = "timerConnectRejected"
  /\ m_status.message = "Max reconnection attempts reached"


\* C39: a reconnection timer that fires calls connect() only when the
\* transport is disconnected (readyState 0).  Fired while the transport is
\* connected, connecting or disconnecting it calls no connect(), clears
\* isReconnecting and leaves the status (connected, topology fields) and
\* currentRetry as they were.
C39_TimerConnectsOnlyWhenDisconnected ==
  [][(focus = "mongo" /\ last'.op = "timer")
       => /\ m_currentRetry' = m_currentRetry
          /\ m_status' = m_status
          /\ IF m_readyState = 0
             THEN /\ m_connecting'["timer"] = m_connecting["timer"] + 1
                  /\ m_readyState' = 2
             ELSE /\ m_connecting' = m_connecting
                  /\ m_readyState' = m_readyState
                  /\ ~m_isReconnecting']_vars

\* a timer armed by an earlier loss fired while disconnect() was closing the
\* connection: no connect() was started
C39_Witness ==
  /\ focus = "mongo"
  /\ last.op = "timer"
  /\ last.timers = 1
  /\ m_readyState = 3
  /\ ret = "closing"
  /\ ~m_isReconnecting
  /\ m_connecting["timer"] = 0


\* ------------------------------------------- dashboard: services/api.js
MAX_RETRIES == 3
RETRY_DELAY == 1000

\* What apiClient.request() can settle with: a 2xx response, or an axios error
\* without a response (network, timeout, DNS, refused) or with a 4xx / 5xx one.
ClientOk == [ok |-> TRUE, hasResponse |-> TRUE, status |-> 200, code |-> "none"]

ClientError(hasResponse, status, code) ==
  [ok |-> FALSE, hasResponse |-> hasResponse, status |-> status, code |-> code]

ClientErrors ==
  {ClientError(FALSE, 0, c) :
     c \in {"ERR_NETWORK", "ECONNABORTED", "ENOTFOUND", "ECONNREFUSED"}}
    \cup {ClientError(TRUE, s, "ERR_BAD_RESPONSE") : s \in {500, 503}}
    \cup {ClientError(TRUE, s, "ERR_BAD_REQUEST") : s \in {400, 404}}

\* a retry rule that retries every error
shouldRetry_Always(error) == TRUE

\* const shouldRetry = !error.response || error.response.status >= 500 || ...
shouldRetry(error) ==
  \/ ~error.hasResponse
  \/ error.status >= 500
  \/ error.code = "ECONNABORTED"
  \/ error.code = "ENOTFOUND"
  \/ error.code = "ECONNREFUSED"

\* RETRY_DELAY * Math.pow(2, retryCount)
ClientDelay(retryCount) == RETRY_DELAY * 2 ^ retryCount

\* the try / catch of the fetch* wrappers: { success: true, ... } or
\* { success: false, ... }, never a throw
FetchResult(threw) == IF threw THEN "failure" ELSE "success"

\* fetchBackendStatus() and its like: axiosRetry(config) sends the request
ClientFetch ==
  /\ dashboard.phase \in {"idle", "done"}
  /\ dashboard' = [ClientIdle EXCEPT !.phase = "requesting"]
  /\ last' = MStep("fetch")
  /\ UNCHANGED <<focus, maxRetries, retryDelay, proc, redisStatus, response, ret,
                 snapshot, mongoVars, redisVars>>

\* await apiClient.request(config) settles: the response is returned, or the
\* catch of axiosRetry rethrows (retries used up, or an error not to retry)
\* or sleeps before the next request
ClientRequestSettled ==
  /\ dashboard.phase = "requesting"
  /\ \E out \in {ClientOk} \cup ClientErrors :
       LET logged == [dashboard EXCEPT !.log = Append(@, out)]
       IN dashboard' =
            IF out.ok
            THEN [logged EXCEPT !.phase = "done", !.result = FetchResult(FALSE)]
            ELSE IF dashboard.retryCount >= MAX_RETRIES
            THEN [logged EXCEPT !.phase = "done", !.result = FetchResult(TRUE)]
            ELSE IF shouldRetry(out)
            THEN [logged EXCEPT !.phase = "sleeping",
                                !.delays = Append(@, ClientDelay(dashboard.retryCount))]
            ELSE [logged EXCEPT !.phase = "done", !.result = FetchResult(TRUE)]
  /\ last' = MStep("request settled")
  /\ UNCHANGED <<focus, maxRetries, retryDelay, proc, redisStatus, response, ret,
                 snapshot, mongoVars, redisVars>>

\* await sleep(delay) is over: return axiosRetry(config, retryCount + 1)
ClientWake ==
  /\ dashboard.phase = "sleeping"
  /\ dashboard' = [dashboard EXCEPT !.phase = "requesting", !.retryCount = @ + 1]
  /\ last' = MStep("retry")
  /\ UNCHANGED <<focus, maxRetries, retryDelay, proc, redisStatus, response, ret,
                 snapshot, mongoVars, redisVars>>

ClientNext ==
  \/ ClientFetch
  \/ ClientRequestSettled
  \/ ClientWake

\* requests settle (the client has a 10 s timeout) and sleeps end
ClientInit ==
  /\ maxRetries = MaxRetriesCfg
  /\ retryDelay = DefaultRetryDelay
  /\ MongoInit
  /\ RedisInit
  /\ ApiInit
  /\ last = Step("init", 0, FALSE, 0, 0)
  /\ focus = "mongo"
  /\ m_deploy = "mongod"
  /\ r_lib = "ioredis"
  /\ r_config = Config(FALSE, FALSE, FALSE)
  /\ r_deploy = "standalone"

SpecClient ==
  /\ ClientInit
  /\ [][ClientNext]_vars
  /\ WF_vars(ClientRequestSettled)
  /\ WF_vars(ClientWake)

Retried(out) ==
  /\ ~out.ok
  /\ ~out.hasResponse \/ out.status >= 500

\* C40: the API client's retry is bounded and selective.  Whatever the
\* requests settle with, a fetch ends; it sends at most 1 + 3 requests, the
\* retry k + 1 after 1000 * 2^k ms; only an error without response (network,
\* timeout) or with a 5xx response is followed by a retry, a 4xx response
\* never; and the wrapper returns { success: ... } instead of throwing.
C40_RetryIsBoundedAndSelective ==
  /\ [](/\ Len(dashboard.log) <= MAX_RETRIES + 1
        /\ Len(dashboard.delays) <= MAX_RETRIES
        /\ Len(dashboard.delays) = dashboard.retryCount
             + (IF dashboard.phase = "sleeping" THEN 1 ELSE 0)
        /\ \A k \in 1..Len(dashboard.delays) :
             dashboard.delays[k] = 1000 * 2 ^ (k - 1)
        /\ \A k \in 1..Len(dashboard.delays) : Retried(dashboard.log[k]))
  /\ [](dashboard.phase = "done" =>
          /\ dashboard.result \in {"success", "failure"}
          /\ Len(dashboard.log) = Len(dashboard.delays) + 1
          /\ (dashboard.result = "success") = dashboard.log[Len(dashboard.log)].ok
          /\ (dashboard.result = "failure" /\ Retried(dashboard.log[Len(dashboard.log)]))
               => Len(dashboard.delays) = 3)
  /\ (dashboard.phase = "requesting") ~> (dashboard.phase = "done")

\* three retries after 1000, 2000 and 4000 ms, and the fourth request failed
\* too: the wrapper reported the failure
C40_Witness ==
  /\ dashboard.phase = "done"
  /\ dashboard.result = "failure"
  /\ dashboard.delays = <<1000, 2000, 4000>>
  /\ Len(dashboard.log) = 4
  /\ dashboard.log[4].status = 503

====
